---- MODULE Spec2Model ----
(***************************************************************************)
(* Model of the browser pool (BrowserPool) and the scrape orchestration    *)
(* (scrapeGeneric) of services/genericScraper.ts.                          *)
(*                                                                         *)
(* The runtime is single-threaded and cooperative: code between two awaits *)
(* runs atomically.  Every action below is one such run: it starts where a *)
(* call is made or an awaited promise settles and ends at the next await   *)
(* (or at the settlement of the call).                                     *)
(***************************************************************************)
EXTENDS Naturals, Sequences, FiniteSets, TLC

----------------------------------------------------------------------------
(* Program constants                                                       *)

POOL_SIZE == 3

MAX_EMERGENCY_BROWSERS == 5

(* error messages raised by getBrowser itself *)
PoolExhaustedMsg == "[BROWSER POOL] Browser pool exhausted"

MaxAttemptsMsg == "[BROWSER POOL] Max emergency browser attempts exhausted"

criticalErrors ==
  << "timeout", "disconnected", "Extraction failed", "Navigation failed",
     "ERR_NETWORK_CHANGED", "ERR_NAME_NOT_RESOLVED", "ERR_CONNECTION_REFUSED",
     "ERR_CERT_AUTHORITY_INVALID", "ERR_DNS_MALFORMED_RESPONSE",
     "Failed to launch the browser process", "Failed to create page",
     "Protocol error: Browser closed", "Invalid viewport dimensions",
     "Invalid user agent string", "Invalid header value",
     "Evaluation failed: Timeout", "ReferenceError", "Cannot read property",
     "Invalid selector", "Process out of memory", "Page crashed",
     "Browser became unresponsive", "Network interruption",
     "ERR_PROXY_CONNECTION_FAILED", "DNS over HTTPS error", "DOMException",
     "HTTP 503", "HTTP 502", "Rate limiting", "Maintenance mode",
     "Isolated failure", "Unknown argument", "ENOSPC", "HTTP 404",
     "HTTP 500", "HTTP 429" >>

----------------------------------------------------------------------------
(* Bounds of the model                                                     *)

(* scrapeGeneric callers that may be in flight together in the system *)
NumScrapers == 2

(* scrapeGeneric calls made in one behaviour of the system *)
MaxCalls == 2

(* scrapeGeneric calls of a burst: each made once, all in flight together *)
BurstCallers == 3

(* scrapeGeneric callers of ScrapeSpec *)
ScrapeCallers == 1

(* scrapeGeneric calls made in one behaviour of ScrapeSpec *)
MaxScrapeCalls == 2

(* closeAll()/reset() calls made in one behaviour *)
MaxAdmin == 1

(* scrapeGeneric callers of SteadySpec *)
SteadyCallers == 3

(* scrapeGeneric calls made in one behaviour of SteadySpec *)
MaxSteadyCalls == 4

(* callers of initialize() in InitSpec *)
InitCallers == 2

(* initialize() calls made in one behaviour of InitSpec *)
MaxInitCalls == 3

(* browser handles that can exist (live or still referenced) together *)
MaxHandles == 10

(* replenishPool() launches that can be in flight together *)
MaxReplenish == 2

(* callers of the legacy scrapeMFC, the calls they make in all, and the
   closeBrowser() calls made *)
LegacyCallers == 2

MaxLegacyCalls == 3

MaxLegacyCloses == 2

----------------------------------------------------------------------------
(* Values                                                                  *)

Callers == 1..(MAX_EMERGENCY_BROWSERS + 1)

Handles == 1..MaxHandles

(* null *)
NoHandle == 0

(* no error *)
NoMsg == ""

(* messages with which an injected browser operation fails *)
ErrMsgs ==
  { "Navigation failed",
    "Some random error",
    "net::ERR_NAME_NOT_RESOLVED at https://example.com",
    "Navigation timeout of 20000 ms exceeded",
    "TimeoutError: waiting failed",
    "Execution context was destroyed" }

(* the object the extraction script returns *)
ExtractedFields == {"name"}

NoOutcome == [kind |-> "none", fields |-> {}, error |-> NoMsg]

Resolved(fs, msg) == [kind |-> "resolved", fields |-> fs, error |-> msg]

Rejected(msg) == [kind |-> "rejected", fields |-> {}, error |-> msg]

VARIABLES
  browsers,               \* BrowserPool.browsers: the available list
  isInitialized,          \* BrowserPool.isInitialized
  replenishLock,          \* BrowserPool.replenishLock
  emergencyBrowserCount,  \* BrowserPool.emergencyBrowserCount
  live,                   \* handles whose browser process runs (launched, not closed)
  replLaunching,          \* replenishPool() calls awaiting puppeteer.launch
  replBackoff,            \* replenishPool() calls in their 1 s failure wait
  adminPc,                \* position of the closeAll()/reset() call in progress
  adminKind,              \* "closeAll" or "reset"
  closeTodo,              \* handles of closeAll's snapshot not yet processed
  adminLeft,              \* closeAll()/reset() calls still to be made
  callsLeft,              \* scrapeGeneric calls still to be made
  pc,                     \* per caller: position in getBrowser / scrapeGeneric
  initI,                  \* per caller: loop index i of its initialize() run
  browser,                \* per caller: the handle getBrowser returned
  obtained,               \* per caller: `browser` was assigned in this call
  page,                   \* per caller: whether page is non-null
  cfConfigured,           \* per caller: config.cloudflareDetection is set
  thrown,                 \* per caller: message of the error that reached catch
  pending,                \* per caller: completion decided by return / catch
  outcome,                \* per caller: how the call settled
  pageCloses,             \* per caller: page.close() calls made by this call
  browserCloses,          \* per caller: browser.close() calls made by this call
  closeFailed,            \* per caller: which closes of the finally rejected
  stages,                 \* per caller: the awaits of this call reached so far, in order
  waitRejected,           \* per caller: this call's page.waitForFunction rejected
  waitArg,                \* per caller: the pattern list this call handed to page.waitForFunction
  viaEmergency,           \* per caller: `browser` came from getBrowser's emergency launch
  emAttempts,             \* per caller: emergency launches made so far by its pending getBrowser() call
  initGot,                \* per caller: handles its initialize() call has launched
  initLate,               \* per caller: the pool was initialized when it called initialize()
  closeLog,               \* closeAll in progress: what each close task found and did
  exited,                 \* process.exit() was called
  title,                  \* detectCloudflareChallenge: argument title
  bodyText,               \* detectCloudflareChallenge: argument bodyText
  patterns,               \* detectCloudflareChallenge: argument patterns
  detectCalled,           \* detectCloudflareChallenge has been applied to them
  challengeDetected,      \* what it returned
  textContent,            \* scale extraction: textContent of the scale element
  data,                   \* scale extraction: the scale put into `data`, if any
  bmBrowser,              \* BrowserManager.browser (NoHandle for null)
  bmLaunches              \* launches BrowserManager.getBrowser started since the last closeBrowser() call

poolVars == <<browsers, isInitialized, replenishLock, emergencyBrowserCount>>

replVars == <<replLaunching, replBackoff>>

adminVars == <<adminPc, adminKind, closeTodo, adminLeft, closeLog, exited>>

initVars == <<initGot, initLate>>

detectVars == <<title, bodyText, patterns, detectCalled, challengeDetected>>

scaleVars == <<textContent, data>>

bmVars == <<bmBrowser, bmLaunches>>

scrapeVars ==
  <<cfConfigured, obtained, pending, outcome, page, pageCloses, browserCloses,
    closeFailed, stages, waitRejected, waitArg, viaEmergency>>

vars ==
  <<browsers, isInitialized, replenishLock, emergencyBrowserCount, live,
    replLaunching, replBackoff, adminPc, adminKind, closeTodo, adminLeft,
    callsLeft, pc, initI, browser, obtained, page, cfConfigured, thrown, pending,
    outcome, pageCloses, browserCloses, closeFailed, stages, waitRejected,
    emAttempts, initGot, initLate, closeLog, exited, title, bodyText, patterns,
    detectCalled, challengeDetected, waitArg, viaEmergency, textContent, data,
    bmBrowser, bmLaunches>>

----------------------------------------------------------------------------
(* Handles                                                                 *)

Range(s) == {s[i] : i \in DOMAIN s}

(* handles some part of the program still refers to *)
Referenced ==
  Range(browsers) \cup {browser[c] : c \in Callers} \cup closeTodo
    \cup {bmBrowser}

(* a handle name is free again once its process is gone and nothing refers to it *)
FreeHandles == (Handles \ live) \ Referenced

(* the handle a successful puppeteer.launch yields *)
NewHandle == CHOOSE h \in FreeHandles : \A g \in FreeHandles : h <= g

----------------------------------------------------------------------------
(* BrowserPool.getBrowser and BrowserPool.initialize                       *)
(*                                                                         *)
(* getBrowser is only ever called by scrapeGeneric, whose continuation     *)
(* after `await BrowserPool.getBrowser()` runs as soon as getBrowser       *)
(* settles: no launch, close or timer can come between the two, so the     *)
(* actions below run on into scrapeGeneric up to its next await.           *)

(* a guard that does not look at the lock *)
ReplenishProceeds_NoLock(list) == Len(list) < POOL_SIZE

(* replenishPool's guard: it returns at once when this is false *)
ReplenishProceeds(list) ==
  ~(replenishLock \/ Len(list) >= POOL_SIZE)

(* a gate that lets the launch through at the cap as well *)
EmergencyAllowed_AtCap ==
  emergencyBrowserCount <= MAX_EMERGENCY_BROWSERS

(* the gate of the emergency launch *)
EmergencyAllowed ==
  emergencyBrowserCount < MAX_EMERGENCY_BROWSERS

(* the last-resort test after a failed emergency launch and its wait *)
AttemptsExhausted ==
  emergencyBrowserCount >= MAX_EMERGENCY_BROWSERS

(* String.prototype.includes *)
Includes(text, pat) ==
  \E i \in 1..(Len(text) - Len(pat) + 1) :
    SubSeq(text, i, i + Len(pat) - 1) = pat

(* a classification by equality alone *)
IsCriticalError_ExactOnly(msg) ==
  \E k \in DOMAIN criticalErrors : msg = criticalErrors[k]

(* criticalErrors.some(t => message.includes(t) || message === t) *)
IsCriticalError(msg) ==
  \E k \in DOMAIN criticalErrors :
    Includes(msg, criticalErrors[k]) \/ msg = criticalErrors[k]

(* the messages an error reaching the catch block can carry: those of the
   injected failures and those of getBrowser's own errors *)
Throwable == ErrMsgs \cup {PoolExhaustedMsg, MaxAttemptsMsg}

(* isCriticalError, evaluated once for every such message *)
CriticalThrowable == {m \in Throwable : IsCriticalError(m)}

(* the completion the catch block decides for an error with message msg:
   `throw error` when isCriticalError, else `return { error: error.message }` *)
CatchOutcome(msg) ==
  IF msg \in CriticalThrowable THEN Rejected(msg) ELSE Resolved({"error"}, msg)

(* a finally block that lets a rejected close escape *)
SettledOutcome_CloseEscapes(p, failed) ==
  IF failed # {} THEN Rejected("Page close failed") ELSE p

(* the completion of the call once the finally block has run: both closes are
   awaited with a .catch handler inside a try/catch, so the completion decided
   by return / catch stands whichever closes rejected *)
SettledOutcome(p, failed) == p

(* a getBrowser() that launches without counting the attempt *)
CountAfterAttempt_Same(n) == n

(* `this.emergencyBrowserCount++` before the emergency launch *)
CountAfterAttempt(n) == n + 1

(* the attempts of one getBrowser() call are counted up to this number *)
MaxAttemptsCounted == MAX_EMERGENCY_BROWSERS + 1

(* the emergency launches the caller's getBrowser() call has made before this
   step: none when the step is the call itself *)
EmBase(c) == IF pc[c] \in {"idle", "done"} THEN 0 ELSE emAttempts[c]

(* getBrowser throws msg: scrapeGeneric's catch block decides the completion
   and its finally block, with page and browser still null, closes nothing *)
AcquireFails(c, msg) ==
  /\ thrown' = [thrown EXCEPT ![c] = msg]
  /\ browser' = [browser EXCEPT ![c] = NoHandle]
  /\ obtained' = [obtained EXCEPT ![c] = FALSE]
  /\ viaEmergency' = [viaEmergency EXCEPT ![c] = FALSE]
  /\ pending' = [pending EXCEPT ![c] = CatchOutcome(msg)]
  /\ outcome' = [outcome EXCEPT ![c] = SettledOutcome(CatchOutcome(msg), {})]
  /\ stages' = [stages EXCEPT ![c] = <<"getBrowser">>]
  /\ emAttempts' = [emAttempts EXCEPT ![c] = 0]
  /\ pc' = [pc EXCEPT ![c] = "done"]

(* getBrowser returns handle h: scrapeGeneric assigns it to `browser` and
   calls browser.newPage() *)
AcquireReturns(c, h) ==
  /\ browser' = [browser EXCEPT ![c] = h]
  /\ obtained' = [obtained EXCEPT ![c] = TRUE]
  /\ thrown' = [thrown EXCEPT ![c] = NoMsg]
  /\ pending' = [pending EXCEPT ![c] = NoOutcome]
  /\ outcome' = [outcome EXCEPT ![c] = NoOutcome]
  /\ stages' = [stages EXCEPT ![c] = <<"getBrowser", "newPage">>]
  /\ emAttempts' = [emAttempts EXCEPT ![c] = 0]
  /\ pc' = [pc EXCEPT ![c] = "newPage"]

(* getBrowser is suspended at its next await, at position at *)
AcquireWaits(c, at) ==
  /\ browser' = [browser EXCEPT ![c] = NoHandle]
  /\ obtained' = [obtained EXCEPT ![c] = FALSE]
  /\ viaEmergency' = [viaEmergency EXCEPT ![c] = FALSE]
  /\ thrown' = [thrown EXCEPT ![c] = NoMsg]
  /\ pending' = [pending EXCEPT ![c] = NoOutcome]
  /\ outcome' = [outcome EXCEPT ![c] = NoOutcome]
  /\ stages' = [stages EXCEPT ![c] = <<"getBrowser">>]
  /\ emAttempts' = [emAttempts EXCEPT ![c] =
                       IF at = "em_launch" /\ EmBase(c) < MaxAttemptsCounted
                         THEN EmBase(c) + 1 ELSE EmBase(c)]
  /\ pc' = [pc EXCEPT ![c] = at]

(* getBrowser from `this.browsers.shift()` on, the list being `list`: to its
   return, its throw or the await of the emergency launch.  A successful
   shift also runs replenishPool() up to its await. *)
GetBrowserFrom(c, list) ==
  IF list # <<>>
    THEN /\ browsers' = Tail(list)
         /\ IF ReplenishProceeds(Tail(list))
              THEN /\ replLaunching + replBackoff < MaxReplenish
                   /\ replenishLock' = TRUE
                   /\ replLaunching' = replLaunching + 1
              ELSE UNCHANGED <<replenishLock, replLaunching>>
         /\ AcquireReturns(c, Head(list))
         /\ viaEmergency' = [viaEmergency EXCEPT ![c] = FALSE]
         /\ UNCHANGED emergencyBrowserCount
    ELSE /\ browsers' = list
         /\ UNCHANGED <<replenishLock, replLaunching>>
         /\ IF EmergencyAllowed
              THEN /\ emergencyBrowserCount' =
                        CountAfterAttempt(emergencyBrowserCount)
                   /\ AcquireWaits(c, "em_launch")
              ELSE /\ AcquireFails(c, PoolExhaustedMsg)
                   /\ UNCHANGED emergencyBrowserCount

(* getBrowser from its entry: an uninitialized pool makes the caller run
   initialize(), whose loop starts its first launch *)
GetBrowserEnter(c) ==
  IF ~isInitialized
    THEN /\ AcquireWaits(c, "init")
         /\ initI' = [initI EXCEPT ![c] = 0]
         /\ UNCHANGED <<browsers, replenishLock, replLaunching,
                        emergencyBrowserCount>>
    ELSE /\ GetBrowserFrom(c, browsers)
         /\ UNCHANGED initI

(* what getBrowser leaves alone *)
GetBrowserFrame ==
  UNCHANGED <<replBackoff, adminVars, callsLeft, page, cfConfigured,
              pageCloses, browserCloses, closeFailed, waitRejected, waitArg,
              initVars, detectVars, scaleVars, bmVars>>

(* a loop that a failed launch ends *)
InitLoopGoesOn_UntilFailure(i, ok) == ok /\ i + 1 < POOL_SIZE

(* whether initialize()'s loop has another iteration after iteration i, whose
   launch resolved (ok) or rejected: the rejection is caught inside the loop *)
InitLoopGoesOn(i, ok) == i + 1 < POOL_SIZE

(* initialize(): the launch of iteration i settles; the loop goes on, or it
   ends, initialize() returns and getBrowser goes on to the shift *)
InitLaunchDone(c, ok) ==
  /\ pc[c] = "init"
  /\ ok => FreeHandles # {}
  /\ live' = IF ok THEN live \cup {NewHandle} ELSE live
  /\ LET list == IF ok THEN Append(browsers, NewHandle) ELSE browsers
     IN  IF InitLoopGoesOn(initI[c], ok)
           THEN /\ browsers' = list
                /\ initI' = [initI EXCEPT ![c] = initI[c] + 1]
                /\ UNCHANGED <<isInitialized, replenishLock, replLaunching,
                               emergencyBrowserCount, pc, browser, obtained, viaEmergency,
                               thrown, pending, outcome, stages, emAttempts>>
           ELSE /\ initI' = [initI EXCEPT ![c] = 0]
                /\ isInitialized' = TRUE
                /\ GetBrowserFrom(c, list)
  /\ GetBrowserFrame

(* the emergency launch settles *)
EmergencyLaunchDone(c, ok) ==
  /\ pc[c] = "em_launch"
  /\ IF ok
       THEN /\ FreeHandles # {}
            /\ live' = live \cup {NewHandle}
            /\ AcquireReturns(c, NewHandle)
            /\ viaEmergency' = [viaEmergency EXCEPT ![c] = TRUE]
       ELSE /\ AcquireWaits(c, "em_backoff")
            /\ UNCHANGED live
  /\ UNCHANGED <<poolVars, replLaunching, initI>>
  /\ GetBrowserFrame

(* the 250 ms wait after a failed emergency launch ends *)
EmergencyBackoffDone(c) ==
  /\ pc[c] = "em_backoff"
  /\ IF AttemptsExhausted
       THEN /\ AcquireFails(c, MaxAttemptsMsg)
            /\ UNCHANGED <<browsers, replenishLock, replLaunching,
                           emergencyBrowserCount, initI>>
       ELSE GetBrowserEnter(c)
  /\ UNCHANGED <<isInitialized, live>>
  /\ GetBrowserFrame

----------------------------------------------------------------------------
(* BrowserPool.initialize called on its own, as initializeBrowserPool() and  *)
(* the server start do                                                      *)

(* a guard that never finds the pool initialized *)
AlreadyInitialized_Never == FALSE

(* a guard that also stops a call made while another initialize() runs *)
AlreadyInitialized_OrStarted ==
  isInitialized \/ \E c \in Callers : pc[c] = "initialize"

(* initialize()'s guard: `if (this.isInitialized) return` *)
AlreadyInitialized == isInitialized

(* initialize() is called: it returns at once, or starts its first launch *)
Initialize(c) ==
  /\ pc[c] \in {"idle", "init_noop", "init_ret"}
  /\ callsLeft > 0
  /\ callsLeft' = callsLeft - 1
  /\ initLate' = [initLate EXCEPT ![c] = isInitialized]
  /\ IF AlreadyInitialized
       THEN /\ pc' = [pc EXCEPT ![c] = "init_noop"]
            /\ UNCHANGED <<initI, initGot>>
       ELSE /\ pc' = [pc EXCEPT ![c] = "initialize"]
            /\ initI' = [initI EXCEPT ![c] = 0]
            /\ initGot' = [initGot EXCEPT ![c] = {}]
  /\ UNCHANGED <<poolVars, live, replVars, adminVars, browser, thrown,
                 scrapeVars, emAttempts, detectVars, scaleVars, bmVars>>

(* the launch of iteration i of that initialize() settles; after the last
   iteration the pool is marked initialized and the call returns *)
InitializeLaunchDone(c, ok) ==
  /\ pc[c] = "initialize"
  /\ ok => FreeHandles # {}
  /\ live' = IF ok THEN live \cup {NewHandle} ELSE live
  /\ browsers' = IF ok THEN Append(browsers, NewHandle) ELSE browsers
  /\ initGot' = [initGot EXCEPT ![c] = IF ok THEN @ \cup {NewHandle} ELSE @]
  /\ initI' = [initI EXCEPT ![c] = @ + 1]
  /\ IF InitLoopGoesOn(initI[c], ok)
       THEN UNCHANGED <<isInitialized, pc>>
       ELSE /\ isInitialized' = TRUE
            /\ pc' = [pc EXCEPT ![c] = "init_ret"]
  /\ UNCHANGED <<replenishLock, emergencyBrowserCount, replVars, adminVars,
                 callsLeft, browser, thrown, scrapeVars, emAttempts, initLate,
                 detectVars, scaleVars, bmVars>>

----------------------------------------------------------------------------
(* BrowserPool.replenishPool                                               *)

(* a success that clears the counter *)
AfterReplenish_Zero(n) == 0

(* a decrement without the floor *)
AfterReplenish_NoFloor(n) == n - 1

(* emergencyBrowserCount after a successful replenishment *)
AfterReplenish(n) == IF n >= 1 THEN n - 1 ELSE 0

(* the launch of a replenishPool() call settles *)
ReplenishLaunchDone(ok) ==
  /\ replLaunching > 0
  /\ IF ok
       THEN /\ FreeHandles # {}
            /\ browsers' = Append(browsers, NewHandle)
            /\ live' = live \cup {NewHandle}
            /\ emergencyBrowserCount' = AfterReplenish(emergencyBrowserCount)
            /\ replenishLock' = FALSE
            /\ replLaunching' = replLaunching - 1
            /\ UNCHANGED replBackoff
       ELSE /\ replLaunching' = replLaunching - 1
            /\ replBackoff' = replBackoff + 1
            /\ UNCHANGED <<browsers, live, emergencyBrowserCount,
                           replenishLock>>
  /\ UNCHANGED <<isInitialized, adminVars, callsLeft, pc, initI, browser,
                 thrown, scrapeVars, emAttempts, initVars, detectVars, scaleVars, bmVars>>

(* a replenishPool() that keeps the lock after a failed launch *)
LockAfterFailedReplenish_Kept == replenishLock

(* the lock when replenishPool() ends after a failed launch:
   `finally { this.replenishLock = false }` *)
LockAfterFailedReplenish == FALSE

(* the 1 s wait after a failed replenishment ends; finally frees the lock *)
ReplenishBackoffDone ==
  /\ replBackoff > 0
  /\ replBackoff' = replBackoff - 1
  /\ replenishLock' = LockAfterFailedReplenish
  /\ UNCHANGED <<browsers, isInitialized, emergencyBrowserCount, live,
                 replLaunching, adminVars, callsLeft, pc, initI, browser,
                 thrown, scrapeVars, emAttempts, initVars, detectVars, scaleVars, bmVars>>

----------------------------------------------------------------------------
(* BrowserPool.closeAll and BrowserPool.reset                              *)
(*                                                                         *)
(* kind tells whether closeAll() was called by reset().  reset() resumes   *)
(* as soon as closeAll() returns, so its assignments are part of the step  *)
(* in which closeAll() finishes.                                           *)

(* a reset() that leaves the lock as it is *)
LockAfterCloseAll_Kept(kind) == replenishLock

(* the lock once closeAll() (and reset(), if it is the caller) has finished *)
LockAfterCloseAll(kind) ==
  IF kind = "reset" THEN FALSE ELSE replenishLock

(* the assignments that end closeAll(), and reset() after it *)
ClearPool(kind) ==
  /\ browsers' = <<>>
  /\ emergencyBrowserCount' = 0
  /\ isInitialized' = FALSE
  /\ replenishLock' = LockAfterCloseAll(kind)

(* a close task that calls close() whatever isConnected() answered *)
CallsClose_Always(connected) == TRUE

(* whether a close task calls browser.close(): `if (isStillConnected)` *)
CallsClose(connected) == connected

(* the close tasks of a closeAll() call over the handles of `list`, conn being
   the handles whose isConnected() answers true: a task that calls close()
   waits for it, any other task is settled at once *)
CloseTasks(list, conn) ==
  { [h |-> h, connected |-> h \in conn, closeCalled |-> CallsClose(h \in conn),
     settled |-> ~CallsClose(h \in conn), ok |-> TRUE] : h \in Range(list) }

(* closeAll()/reset() is called: one close task per handle now in the list.
   isConnected() is evaluated and close() called before anything else can
   run; a browser found disconnected is gone.  When no task waits for a
   close(), nothing is awaited but settled promises and the call finishes at
   once. *)
CloseAllStart(kind, conn) ==
  /\ adminPc = "idle"
  /\ adminLeft > 0
  /\ conn \subseteq (Range(browsers) \cap live)
  /\ adminLeft' = adminLeft - 1
  /\ adminKind' = kind
  /\ live' = live \ (Range(browsers) \ conn)
  /\ LET tasks == CloseTasks(browsers, conn)
         waiting == {t.h : t \in {u \in tasks : ~u.settled}}
     IN  IF waiting = {}
           THEN /\ ClearPool(kind)
                /\ closeLog' = {}
                /\ UNCHANGED <<adminPc, closeTodo>>
           ELSE /\ closeTodo' = waiting
                /\ closeLog' = tasks
                /\ adminPc' = "closing"
                /\ UNCHANGED poolVars
  /\ UNCHANGED <<replVars, callsLeft, pc, initI, browser, thrown,
                 scrapeVars, emAttempts, initVars, detectVars, scaleVars, bmVars, exited>>

(* the close() of one close task settles; its rejection is caught in the task *)
CloseOne(h, ok) ==
  /\ adminPc = "closing"
  /\ h \in closeTodo
  /\ closeTodo' = closeTodo \ {h}
  /\ closeLog' = {IF t.h = h THEN [t EXCEPT !.settled = TRUE, !.ok = ok] ELSE t :
                    t \in closeLog}
  /\ live' = live \ {h}
  /\ UNCHANGED <<poolVars, replVars, adminPc, adminKind, adminLeft,
                 callsLeft, pc, initI, browser, thrown, scrapeVars, emAttempts,
                 initVars, detectVars, scaleVars, bmVars, exited>>

(* every close task has settled: closeAll clears the pool state *)
CloseAllFinish ==
  /\ adminPc = "closing"
  /\ closeTodo = {}
  /\ ClearPool(adminKind)
  /\ adminPc' = "idle"
  /\ closeLog' = {}
  /\ UNCHANGED <<live, replVars, closeTodo, adminKind, adminLeft, callsLeft, pc,
                 initI, browser, thrown, scrapeVars, emAttempts, initVars, detectVars, scaleVars, bmVars,
                 exited>>

(* SIGTERM or SIGINT arrives.  Node calls the listeners of the signal one
   after the other, in the order they were registered, each up to its first
   await.  The listener of genericScraper, registered when index requires the
   module, calls closeAll(): every close task calls isConnected() and
   suspends at that await, closeAll() suspends at Promise.allSettled.  The
   listener of index then calls process.exit(0): no continuation runs any
   more, so no close task gets to its browser.close(). *)
Signal(conn) ==
  /\ ~exited
  /\ adminPc = "idle"
  /\ conn \subseteq (Range(browsers) \cap live)
  /\ adminKind' = "closeAll"
  /\ adminPc' = "closing"
  /\ closeLog' = { [h |-> h, connected |-> h \in conn, closeCalled |-> FALSE,
                    settled |-> FALSE, ok |-> TRUE] : h \in Range(browsers) }
  /\ exited' = TRUE
  /\ UNCHANGED <<poolVars, live, replVars, closeTodo, adminLeft, callsLeft, pc,
                 initI, browser, thrown, scrapeVars, emAttempts, initVars, detectVars, scaleVars, bmVars>>

----------------------------------------------------------------------------
(* scrapeGeneric                                                           *)

(* a finally block whose page.close() rejection skips browser.close() *)
ClosesBrowserAfterPage_OnlyIfOk(c, pageCloseOk) ==
  browser[c] # NoHandle /\ pageCloseOk

(* whether the finally block still calls browser.close() after page.close()
   settled *)
ClosesBrowserAfterPage(c, pageCloseOk) == browser[c] # NoHandle

(* the finally block up to its first await, entered with completion p *)
EnterFinally(c, p) ==
  /\ pending' = [pending EXCEPT ![c] = p]
  /\ IF page[c]
       THEN /\ pageCloses' = [pageCloses EXCEPT ![c] = @ + 1]
            /\ pc' = [pc EXCEPT ![c] = "fin_page"]
            /\ stages' = [stages EXCEPT ![c] = Append(@, "fin_page")]
            /\ UNCHANGED <<browserCloses, outcome>>
       ELSE IF browser[c] # NoHandle
         THEN /\ browserCloses' = [browserCloses EXCEPT ![c] = @ + 1]
              /\ pc' = [pc EXCEPT ![c] = "fin_browser"]
              /\ stages' = [stages EXCEPT ![c] = Append(@, "fin_browser")]
              /\ UNCHANGED <<pageCloses, outcome>>
         ELSE /\ outcome' = [outcome EXCEPT ![c] = SettledOutcome(p, {})]
              /\ pc' = [pc EXCEPT ![c] = "done"]
              /\ UNCHANGED <<pageCloses, browserCloses, stages>>
  /\ UNCHANGED <<page, browser, obtained, viaEmergency, live, closeFailed>>

(* an awaited operation of the try block rejects with msg: catch, then finally *)
TryFails(c, msg) ==
  /\ thrown' = [thrown EXCEPT ![c] = msg]
  /\ EnterFinally(c, CatchOutcome(msg))

(* an awaited operation of the try block resolves: on to the next await *)
TryGoesOn(c, next) ==
  /\ pc' = [pc EXCEPT ![c] = next]
  /\ stages' = [stages EXCEPT ![c] = Append(@, next)]
  /\ UNCHANGED <<thrown, pending, outcome, pageCloses, browserCloses,
                 closeFailed, browser, obtained, viaEmergency, live>>

(* what the scrape steps never touch *)
ScrapeFrame ==
  UNCHANGED <<poolVars, replVars, adminVars, callsLeft, initI, cfConfigured,
              emAttempts, initVars, detectVars, scaleVars, bmVars>>

(* scrapeGeneric(url, config) is called: its locals are fresh and it runs
   into BrowserPool.getBrowser() *)
ScrapeGeneric(c, cf) ==
  /\ pc[c] \in {"idle", "done"}
  /\ callsLeft > 0
  /\ callsLeft' = callsLeft - 1
  /\ cfConfigured' = [cfConfigured EXCEPT ![c] = cf]
  /\ page' = [page EXCEPT ![c] = FALSE]
  /\ pageCloses' = [pageCloses EXCEPT ![c] = 0]
  /\ browserCloses' = [browserCloses EXCEPT ![c] = 0]
  /\ closeFailed' = [closeFailed EXCEPT ![c] = {}]
  /\ waitRejected' = [waitRejected EXCEPT ![c] = FALSE]
  /\ waitArg' = [waitArg EXCEPT ![c] = <<>>]
  /\ GetBrowserEnter(c)
  /\ UNCHANGED <<isInitialized, live, replBackoff, adminVars, initVars, detectVars, scaleVars, bmVars>>

(* browser.newPage() settles *)
NewPageDone(c, ok, msg) ==
  /\ pc[c] = "newPage"
  /\ IF ok
       THEN /\ page' = [page EXCEPT ![c] = TRUE]
            /\ TryGoesOn(c, "setViewport")
            /\ UNCHANGED <<waitRejected, waitArg>>
       ELSE TryFails(c, msg) /\ UNCHANGED <<waitRejected, waitArg>>
  /\ ScrapeFrame

(* an order of the page configuration that goes from the headers to the
   extraction *)
PrepareNext_SkipsGoto(at) ==
  CASE at = "setViewport" -> "setUserAgent"
    [] at = "setUserAgent" -> "setExtraHTTPHeaders"
    [] at = "setExtraHTTPHeaders" -> "extract"

(* the await that follows each page configuration call *)
PrepareNext(at) ==
  CASE at = "setViewport" -> "setUserAgent"
    [] at = "setUserAgent" -> "setExtraHTTPHeaders"
    [] at = "setExtraHTTPHeaders" -> "goto"

(* page.setViewport / setUserAgent / setExtraHTTPHeaders settles *)
PrepareDone(c, ok, msg) ==
  /\ pc[c] \in {"setViewport", "setUserAgent", "setExtraHTTPHeaders"}
  /\ IF ok
       THEN TryGoesOn(c, PrepareNext(pc[c])) /\ UNCHANGED <<page, waitRejected, waitArg>>
       ELSE TryFails(c, msg) /\ UNCHANGED <<waitRejected, waitArg>>
  /\ ScrapeFrame

(* page.goto settles *)
GotoDone(c, ok, msg) ==
  /\ pc[c] = "goto"
  /\ IF ok
       THEN TryGoesOn(c, "settle") /\ UNCHANGED <<page, waitRejected, waitArg>>
       ELSE TryFails(c, msg) /\ UNCHANGED <<waitRejected, waitArg>>
  /\ ScrapeFrame

(* the waitTime timer fires *)
SettleDone(c) ==
  /\ pc[c] = "settle"
  /\ TryGoesOn(c, IF cfConfigured[c] THEN "title" ELSE "extract")
  /\ UNCHANGED <<page, waitRejected, waitArg>>
  /\ ScrapeFrame

(* page.title() settles *)
TitleDone(c, ok, msg) ==
  /\ pc[c] = "title"
  /\ IF ok
       THEN TryGoesOn(c, "bodyText") /\ UNCHANGED <<page, waitRejected, waitArg>>
       ELSE TryFails(c, msg) /\ UNCHANGED <<waitRejected, waitArg>>
  /\ ScrapeFrame

(* the list a detected challenge hands to page.waitForFunction *)
challengePatterns == <<"Just a moment">>

(* page.evaluate(() => document.body.innerText) settles; detected is the
   verdict of detectCloudflareChallenge on what the page showed, and a
   detected challenge starts the wait on challengePatterns *)
BodyTextDone(c, ok, msg, detected) ==
  /\ pc[c] = "bodyText"
  /\ IF ok
       THEN /\ TryGoesOn(c, IF detected THEN "waitForFunction" ELSE "extract")
            /\ waitArg' = [waitArg EXCEPT ![c] =
                             IF detected THEN challengePatterns ELSE @]
            /\ UNCHANGED <<page, waitRejected>>
       ELSE TryFails(c, msg) /\ UNCHANGED <<waitRejected, waitArg>>
  /\ ScrapeFrame

(* a challenge wait whose rejection is not handled *)
ChallengeWaitGoesOn_OnlyResolved(ok) == ok

(* whether the awaited `page.waitForFunction(...).catch(() => log)` completes
   normally: the .catch handler turns a rejection into a fulfilment *)
ChallengeWaitGoesOn(ok) == TRUE

(* the message of a rejected challenge wait *)
ChallengeTimeoutMsg == "TimeoutError: waiting failed"

(* page.waitForFunction settles *)
WaitForFunctionDone(c, ok) ==
  /\ pc[c] = "waitForFunction"
  /\ waitRejected' = [waitRejected EXCEPT ![c] = ~ok]
  /\ UNCHANGED waitArg
  /\ IF ChallengeWaitGoesOn(ok)
       THEN TryGoesOn(c, "challengeSettle")
       ELSE TryFails(c, ChallengeTimeoutMsg)
  /\ UNCHANGED page
  /\ ScrapeFrame

(* a challenge wait after which the page is loaded again *)
AfterChallenge_Renavigates == "goto"

(* the await that follows the challenge block: the extraction page.evaluate *)
AfterChallenge == "extract"

(* the 1500 ms timer after the challenge wait fires *)
ChallengeSettleDone(c) ==
  /\ pc[c] = "challengeSettle"
  /\ TryGoesOn(c, AfterChallenge)
  /\ UNCHANGED <<page, waitRejected, waitArg>>
  /\ ScrapeFrame

(* the extraction page.evaluate settles: return scrapedData, or catch *)
ExtractDone(c, ok, msg) ==
  /\ pc[c] = "extract"
  /\ IF ok
       THEN /\ EnterFinally(c, Resolved(ExtractedFields, NoMsg))
            /\ UNCHANGED <<thrown, waitRejected, waitArg>>
       ELSE TryFails(c, msg) /\ UNCHANGED <<waitRejected, waitArg>>
  /\ ScrapeFrame

(* page.close() settles; the finally block goes on to browser.close() *)
PageCloseDone(c, ok) ==
  /\ pc[c] = "fin_page"
  /\ closeFailed' = [closeFailed EXCEPT ![c] = IF ok THEN @ ELSE @ \cup {"page"}]
  /\ IF ClosesBrowserAfterPage(c, ok)
       THEN /\ browserCloses' = [browserCloses EXCEPT ![c] = @ + 1]
            /\ pc' = [pc EXCEPT ![c] = "fin_browser"]
            /\ stages' = [stages EXCEPT ![c] = Append(@, "fin_browser")]
            /\ UNCHANGED outcome
       ELSE /\ outcome' = [outcome EXCEPT ![c] =
                             SettledOutcome(pending[c], closeFailed'[c])]
            /\ pc' = [pc EXCEPT ![c] = "done"]
            /\ UNCHANGED <<browserCloses, stages>>
  /\ UNCHANGED <<page, browser, obtained, viaEmergency, live, thrown, pending, pageCloses,
                 waitRejected, waitArg>>
  /\ ScrapeFrame

(* browser.close() settles: the browser process is gone and the call settles *)
BrowserCloseDone(c, ok) ==
  /\ pc[c] = "fin_browser"
  /\ closeFailed' = [closeFailed EXCEPT ![c] = IF ok THEN @ ELSE @ \cup {"browser"}]
  /\ live' = live \ {browser[c]}
  /\ browser' = [browser EXCEPT ![c] = NoHandle]
  /\ outcome' = [outcome EXCEPT ![c] =
                   SettledOutcome(pending[c], closeFailed'[c])]
  /\ pc' = [pc EXCEPT ![c] = "done"]
  /\ UNCHANGED <<page, obtained, viaEmergency, thrown, pending, pageCloses, browserCloses,
                 stages, waitRejected, waitArg>>
  /\ ScrapeFrame

----------------------------------------------------------------------------
(* detectCloudflareChallenge and its fuzzy matching                        *)
(*                                                                         *)
(* A JavaScript string is modelled by a TLA+ string and handled as the     *)
(* sequence of its characters.  The built-in patterns written in kana and  *)
(* kanji are written here with one stand-in character per character, a     *)
(* digit, "@" or "#", none of which occurs in any other pattern or in any  *)
(* input below: lengths and (in)equalities of characters are those of the  *)
(* source.                                                                 *)

(* the characters of a string *)
Chars(s) == IF s = "" THEN <<>> ELSE [i \in 1..Len(s) |-> SubSeq(s, i, i)]

(* the characters \s matches, among those of the inputs *)
WhiteSpace == {" ", "\t", "\n"}

UpperCase == "ABCDEFGHIJKLMNOPQRSTUVWXYZ"

LowerCase == "abcdefghijklmnopqrstuvwxyz"

LowerOf ==
  [ch \in {SubSeq(UpperCase, k, k) : k \in 1..Len(UpperCase)} |->
     LET k == CHOOSE j \in 1..Len(UpperCase) : SubSeq(UpperCase, j, j) = ch
     IN  SubSeq(LowerCase, k, k)]

(* a toLowerCase() that changes nothing *)
toLowerCase_Identity(cs) == cs

(* String.prototype.toLowerCase *)
toLowerCase(cs) ==
  [i \in DOMAIN cs |-> IF cs[i] \in DOMAIN LowerOf THEN LowerOf[cs[i]] ELSE cs[i]]

(* String.prototype.trim *)
trim(cs) ==
  LET solid == {i \in DOMAIN cs : cs[i] \notin WhiteSpace}
  IN  IF solid = {}
        THEN <<>>
        ELSE SubSeq(cs, CHOOSE i \in solid : \A j \in solid : i <= j,
                        CHOOSE i \in solid : \A j \in solid : i >= j)

(* .replace(/\s+/g, ' '): every run of whitespace becomes one space *)
CollapseWhitespace(cs) ==
  LET marked == [i \in DOMAIN cs |->
                   IF cs[i] \notin WhiteSpace THEN cs[i]
                   ELSE IF i > 1 /\ cs[i - 1] \in WhiteSpace THEN "" ELSE " "]
  IN  SelectSeq(marked, LAMBDA ch : ch # "")

(* text.toLowerCase().trim().replace(/\s+/g, ' ') *)
Normalize(text) == CollapseWhitespace(trim(toLowerCase(Chars(text))))

Min3(a, b, c) ==
  IF a <= b /\ a <= c THEN a ELSE IF b <= c THEN b ELSE c

(* row j of getEditDistance's matrix, filled from left to right, given row
   j - 1 (prev) and ch = str2[j - 1]; element i + 1 of a row is matrix[j][i] *)
RECURSIVE FillRow(_, _, _, _)
FillRow(prev, str1, ch, row) ==
  LET i == Len(row)
  IN  IF i > Len(str1)
        THEN row
        ELSE FillRow(prev, str1, ch,
                     Append(row, IF str1[i] = ch
                                   THEN prev[i]
                                   ELSE Min3(prev[i] + 1, row[i] + 1,
                                             prev[i + 1] + 1)))

(* the rows j .. str2.length of the matrix, each complete before the next is
   begun; the result is the last row *)
RECURSIVE FillMatrix(_, _, _, _)
FillMatrix(str1, str2, j, prev) ==
  IF j > Len(str2)
    THEN prev
    ELSE LET row == FillRow(prev, str1, str2[j], <<j>>)
         IN  IF Len(row) > 0 THEN FillMatrix(str1, str2, j + 1, row) ELSE row

(* getEditDistance: matrix[str2.length][str1.length] *)
getEditDistance(str1, str2) ==
  FillMatrix(str1, str2, 1, [i \in 1..(Len(str1) + 1) |-> i - 1])[Len(str1) + 1]

(* calculateSimilarity, as the fraction num / den it computes *)
calculateSimilarity(str1, str2) ==
  LET longer == IF Len(str1) > Len(str2) THEN str1 ELSE str2
      shorter == IF Len(str1) > Len(str2) THEN str2 ELSE str1
  IN  IF Len(longer) = 0
        THEN [num |-> 1, den |-> 1]
        ELSE [num |-> Len(longer) - getEditDistance(longer, shorter),
              den |-> Len(longer)]

(* the threshold of the title check, 0.8, in tenths *)
TitleThreshold == 8

(* the threshold of the body check, 0.7, in tenths *)
BodyThreshold == 7

(* `similarity >= threshold`, the threshold given in tenths.  The quotient
   of two integers below 2^53 and the literal are both correctly rounded, and
   no quotient with a denominator this small lies within an ulp of the
   threshold without being equal to it, so the comparison of doubles is the
   comparison of the fractions. *)
AtLeast(similarity, tenths) == 10 * similarity.num >= tenths * similarity.den

(* a guard that lets the empty string through *)
IsFalsy_Never(str) == FALSE

(* `!text`, `!pattern` for a string: only the empty string is falsy *)
IsFalsy(str) == str = ""

(* a containment test that also accepts a text contained in the pattern *)
ExactMatch_EitherWay(normalizedText, normalizedPattern) ==
  Includes(normalizedText, normalizedPattern)
    \/ Includes(normalizedPattern, normalizedText)

(* normalizedText.includes(normalizedPattern) *)
ExactMatch(normalizedText, normalizedPattern) ==
  Includes(normalizedText, normalizedPattern)

fuzzyMatchesPattern(text, pattern, threshold) ==
  IF IsFalsy(text) \/ IsFalsy(pattern)
    THEN FALSE
    ELSE LET normalizedText == Normalize(text)
             normalizedPattern == Normalize(pattern)
         IN  \/ ExactMatch(normalizedText, normalizedPattern)
             \/ AtLeast(calculateSimilarity(normalizedText, normalizedPattern),
                        threshold)

(* the built-in title patterns *)
BuiltinTitlePatterns ==
  << "Just a moment", "Please wait", "Checking your browser", "DDoS protection",
     "Security check", "Verifying you are human", "Challenge in progress",
     "Browser check", "Un moment", "Bitte warten", "Espere por favor",
     "Attendere prego", "01234563789", "Just a sec", "Hold on", "Wait a moment",
     "One moment please", "Cloudflare", "CF-RAY", "Ray ID" >>

(* the built-in body patterns *)
BuiltinBodyPatterns ==
  << "Just a moment", "Please wait while we verify",
     "Checking your browser before accessing", "This process is automatic",
     "Your browser will redirect automatically",
     "Please enable JavaScript and cookies",
     "Please turn JavaScript on and reload the page",
     "DDoS protection by Cloudflare", "Performance & security by Cloudflare",
     "Your IP", "Ray ID", "Cloudflare Ray ID", "verify you are a human",
     "verify that you are not a robot", "prove you are human",
     "human verification", "bot detection", "automated requests",
     "Please enable cookies", "JavaScript required", "Please enable JavaScript",
     "browser does not support JavaScript", "cookies disabled",
     "Security service", "Website is under attack mode", "High security",
     "Browser integrity check", "Challenge page", "Access denied", "Forbidden",
     "blocked by security policy", "Por favor espere", "Veuillez patienter",
     "Bitte warten Sie", "4563789", "@#5" >>

(* [...(patterns.titleIncludes || []), ...built-in] *)
expandedTitlePatterns(p) == p.titleIncludes \o BuiltinTitlePatterns

(* [...(patterns.bodyIncludes || []), ...built-in] *)
expandedBodyPatterns(p) == p.bodyIncludes \o BuiltinBodyPatterns

(* the title loop returns true *)
TitleMatches(t, p) ==
  \E k \in DOMAIN expandedTitlePatterns(p) :
    fuzzyMatchesPattern(t, expandedTitlePatterns(p)[k], TitleThreshold)

(* the body loop returns true *)
BodyMatches(b, p) ==
  \E k \in DOMAIN expandedBodyPatterns(p) :
    fuzzyMatchesPattern(b, expandedBodyPatterns(p)[k], BodyThreshold)

detectCloudflareChallenge(t, b, p) == TitleMatches(t, p) \/ BodyMatches(b, p)

(* detectCloudflareChallenge is applied to the arguments *)
DetectCloudflareChallenge ==
  /\ ~detectCalled
  /\ detectCalled' = TRUE
  /\ challengeDetected' = detectCloudflareChallenge(title, bodyText, patterns)
  /\ UNCHANGED <<poolVars, live, replVars, adminVars, callsLeft, pc, initI,
                 browser, thrown, scrapeVars, emAttempts, initVars, title,
                 bodyText, patterns, scaleVars, bmVars>>

(* the patterns argument when no pattern list is given *)
NoPatterns == [titleIncludes |-> <<>>, bodyIncludes |-> <<>>]

(* the variables of the detector where it is not applied *)
NoDetection ==
  /\ title = ""
  /\ bodyText = ""
  /\ patterns = NoPatterns
  /\ detectCalled = FALSE
  /\ challengeDetected = FALSE

(* titles, body texts and caller pattern lists the detector is applied to *)
Titles ==
  { "", "  ", "Just", "Jst a moment...", "JUST  A\tMoment please",
    "Welcome to our website", "Checking  Your\nBROWSER" }

BodyTexts ==
  { "", "moment", "Jst a moment...", "Welcome to our website",
    "Sorry: please ENABLE   cookies\nthen reload" }

PatternLists ==
  { NoPatterns,
    [titleIncludes |-> <<"Just a moment">>, bodyIncludes |-> <<"Just a moment">>],
    [titleIncludes |-> <<"">>, bodyIncludes |-> <<"">>],
    [titleIncludes |-> <<" ", "Maintenance">>, bodyIncludes |-> <<"\t ">>],
    [titleIncludes |-> <<"Welcome TO">>, bodyIncludes |-> <<"our  WEBSITE">>] }

----------------------------------------------------------------------------
(* BrowserManager of services/mfcScraper.ts and the scrapeMFC that uses it   *)

(* what BrowserManager and its callers never touch *)
LegacyFrame ==
  UNCHANGED <<poolVars, replVars, adminKind, closeLog, exited, initI, thrown,
              scrapeVars, emAttempts, initVars, detectVars, scaleVars>>

(* scrapeMFC(url) is called and runs into BrowserManager.getBrowser(): with
   this.browser null it starts a launch and awaits it, else it returns
   this.browser *)
LegacyScrapeMFC(c) ==
  /\ pc[c] = "idle"
  /\ callsLeft > 0
  /\ callsLeft' = callsLeft - 1
  /\ IF bmBrowser = NoHandle
       THEN /\ pc' = [pc EXCEPT ![c] = "bm_launch"]
            /\ browser' = [browser EXCEPT ![c] = NoHandle]
            /\ bmLaunches' = bmLaunches + 1
       ELSE /\ pc' = [pc EXCEPT ![c] = "bm_scrape"]
            /\ browser' = [browser EXCEPT ![c] = bmBrowser]
            /\ UNCHANGED bmLaunches
  /\ UNCHANGED <<live, bmBrowser, adminPc, adminLeft, closeTodo>>
  /\ LegacyFrame

(* the launch getBrowser() awaits settles: the handle is assigned to
   this.browser and returned, or the rejection ends scrapeMFC *)
LegacyLaunchDone(c, ok) ==
  /\ pc[c] = "bm_launch"
  /\ IF ok
       THEN /\ FreeHandles # {}
            /\ live' = live \cup {NewHandle}
            /\ bmBrowser' = NewHandle
            /\ browser' = [browser EXCEPT ![c] = NewHandle]
            /\ pc' = [pc EXCEPT ![c] = "bm_scrape"]
       ELSE /\ pc' = [pc EXCEPT ![c] = "idle"]
            /\ UNCHANGED <<live, bmBrowser, browser>>
  /\ UNCHANGED <<callsLeft, bmLaunches, adminPc, adminLeft, closeTodo>>
  /\ LegacyFrame

(* scrapeMFC's work on its page ends and its finally block has closed the
   page: the call settles, the browser stays open *)
LegacyScrapeSettles(c) ==
  /\ pc[c] = "bm_scrape"
  /\ pc' = [pc EXCEPT ![c] = "idle"]
  /\ browser' = [browser EXCEPT ![c] = NoHandle]
  /\ UNCHANGED <<live, callsLeft, bmVars, adminPc, adminLeft, closeTodo>>
  /\ LegacyFrame

(* BrowserManager.closeBrowser() is called: with this.browser set it awaits
   its close(), else it returns *)
CloseBrowser ==
  /\ adminPc = "idle"
  /\ adminLeft > 0
  /\ adminLeft' = adminLeft - 1
  /\ bmLaunches' = 0
  /\ IF bmBrowser # NoHandle
       THEN adminPc' = "bm_closing" /\ closeTodo' = {bmBrowser}
       ELSE UNCHANGED <<adminPc, closeTodo>>
  /\ UNCHANGED <<live, callsLeft, pc, browser, bmBrowser>>
  /\ LegacyFrame

(* the close() closeBrowser() awaits settles: resolved, this.browser is set
   to null; rejected, closeBrowser() throws before that *)
CloseBrowserDone(ok) ==
  /\ adminPc = "bm_closing"
  /\ adminPc' = "idle"
  /\ live' = live \ closeTodo
  /\ closeTodo' = {}
  /\ bmBrowser' = IF ok THEN NoHandle ELSE bmBrowser
  /\ UNCHANGED <<callsLeft, pc, browser, bmLaunches, adminLeft>>
  /\ LegacyFrame

----------------------------------------------------------------------------
(* The scale extraction of scrapeGeneric's in-page function                 *)

Digits == {"0", "1", "2", "3", "4", "5", "6", "7", "8", "9"}

(* the character at position i of string s *)
CharAt(s, i) == SubSeq(s, i, i)

(* scaleElement.textContent.trim() *)
TrimmedText(s) ==
  LET solid == {i \in 1..Len(s) : CharAt(s, i) \notin WhiteSpace}
  IN  IF solid = {}
        THEN ""
        ELSE SubSeq(s, CHOOSE i \in solid : \A j \in solid : i <= j,
                       CHOOSE i \in solid : \A j \in solid : i >= j)

(* a \d+ that stops after its first digit *)
DigitRunEnd_OneDigit(s, i) == i

(* the last position of the run of digits of s that starts at position i:
   \d+ takes as many digits as there are *)
DigitRunEnd(s, i) ==
  CHOOSE j \in i..Len(s) :
    /\ \A k \in i..j : CharAt(s, k) \in Digits
    /\ j = Len(s) \/ CharAt(s, j + 1) \notin Digits

(* the positions of s at which /1\/\d+/ matches *)
ScaleMatchAt(s) ==
  {i \in 1..(Len(s) - 2) :
     CharAt(s, i) = "1" /\ CharAt(s, i + 1) = "/" /\ CharAt(s, i + 2) \in Digits}

(* the value data.scale gets from a truthy textContent: the first match of
   /1\/\d+/ in the trimmed text, or the trimmed text *)
ScaleOf(text) ==
  LET scaleText == TrimmedText(text)
      at == ScaleMatchAt(scaleText)
  IN  IF at # {}
        THEN LET i == CHOOSE k \in at : \A m \in at : k <= m
             IN  SubSeq(scaleText, i, DigitRunEnd(scaleText, i + 2))
        ELSE scaleText

(* the scale block of the extraction runs on a scale element whose
   textContent is truthy *)
ExtractScale ==
  /\ textContent # ""
  /\ data = <<>>
  /\ data' = <<ScaleOf(textContent)>>
  /\ UNCHANGED <<poolVars, live, replVars, adminVars, callsLeft, pc, initI,
                 browser, thrown, scrapeVars, emAttempts, initVars, detectVars,
                 textContent, bmVars>>

(* texts of scale elements: what precedes the scale, the scale or what
   stands in its place, and what follows it *)
ScaleTexts ==
  { a \o b \o c :
      a \in { "", "Premium Figure ", " \t" },
      b \in { "", "1/7", "1/12", "2/3", "21/700", "1/", "1/x", "Non-scale",
              "1 / 7" },
      c \in { "", " Scale Complete Figure", "\n", " or 1/8" } }

----------------------------------------------------------------------------
(* Specifications                                                          *)

(* the variables of the scale extraction where it is not run *)
NoScale ==
  /\ textContent = ""
  /\ data = <<>>

(* the module as loaded, with `active` callers that will make `calls` calls
   and `admin` closeAll()/reset() calls, the detector's variables left open *)
PoolAtLoad(active, calls, admin) ==
  /\ browsers = <<>>
  /\ isInitialized = FALSE
  /\ replenishLock = FALSE
  /\ emergencyBrowserCount = 0
  /\ live = {}
  /\ replLaunching = 0
  /\ replBackoff = 0
  /\ adminPc = "idle"
  /\ adminKind = "closeAll"
  /\ closeTodo = {}
  /\ adminLeft = admin
  /\ callsLeft = calls
  /\ pc = [c \in Callers |-> IF c <= active THEN "idle" ELSE "off"]
  /\ initI = [c \in Callers |-> 0]
  /\ browser = [c \in Callers |-> NoHandle]
  /\ obtained = [c \in Callers |-> FALSE]
  /\ page = [c \in Callers |-> FALSE]
  /\ cfConfigured = [c \in Callers |-> FALSE]
  /\ thrown = [c \in Callers |-> NoMsg]
  /\ pending = [c \in Callers |-> NoOutcome]
  /\ outcome = [c \in Callers |-> NoOutcome]
  /\ pageCloses = [c \in Callers |-> 0]
  /\ browserCloses = [c \in Callers |-> 0]
  /\ closeFailed = [c \in Callers |-> {}]
  /\ stages = [c \in Callers |-> <<>>]
  /\ waitRejected = [c \in Callers |-> FALSE]
  /\ waitArg = [c \in Callers |-> <<>>]
  /\ viaEmergency = [c \in Callers |-> FALSE]
  /\ bmBrowser = NoHandle
  /\ bmLaunches = 0
  /\ emAttempts = [c \in Callers |-> 0]
  /\ initGot = [c \in Callers |-> {}]
  /\ initLate = [c \in Callers |-> FALSE]
  /\ closeLog = {}
  /\ exited = FALSE

InitWith(active, calls, admin) ==
  PoolAtLoad(active, calls, admin) /\ NoDetection /\ NoScale

PoolNext ==
  \/ \E c \in Callers, ok \in BOOLEAN : InitLaunchDone(c, ok)
  \/ \E c \in Callers, ok \in BOOLEAN : EmergencyLaunchDone(c, ok)
  \/ \E c \in Callers : EmergencyBackoffDone(c)
  \/ \E ok \in BOOLEAN : ReplenishLaunchDone(ok)
  \/ ReplenishBackoffDone

AdminNext ==
  \/ \E kind \in {"closeAll", "reset"}, conn \in SUBSET (Range(browsers) \cap live) :
       CloseAllStart(kind, conn)
  \/ \E h \in Handles, ok \in BOOLEAN : CloseOne(h, ok)
  \/ CloseAllFinish

(* The system: concurrent scrapeGeneric calls on a pool that starts
   uninitialized, background replenishment and closeAll()/reset() calls.
   Between getBrowser and the finally block a scrape touches no pool state,
   so here every scrape takes the shortest way from one to the other:
   its newPage() is rejected and its browser.close() resolves. *)
Init == InitWith(NumScrapers, MaxCalls, MaxAdmin)

HolderNext ==
  \/ \E c \in Callers : ScrapeGeneric(c, FALSE)
  \/ \E c \in Callers : NewPageDone(c, FALSE, "Failed to create page")
  \/ \E c \in Callers : BrowserCloseDone(c, TRUE)

Next == PoolNext \/ AdminNext \/ HolderNext

Spec == Init /\ [][Next]_vars

(* A burst: BurstCallers scrapeGeneric calls, each made once, on a pool that
   starts uninitialized; no closeAll()/reset(). *)
BurstInit == InitWith(BurstCallers, BurstCallers, 0)

BurstSpec == BurstInit /\ [][PoolNext \/ HolderNext]_vars

(* scrapeGeneric calls with every stage of the call and every failure of a
   browser operation, on a pool that replenishes in the background; no
   closeAll()/reset(). *)
ScrapeInit == InitWith(ScrapeCallers, MaxScrapeCalls, 0)

ScrapeNext ==
  \/ \E c \in Callers, cf \in BOOLEAN : ScrapeGeneric(c, cf)
  \/ \E c \in Callers, ok \in BOOLEAN, msg \in ErrMsgs : NewPageDone(c, ok, msg)
  \/ \E c \in Callers, ok \in BOOLEAN, msg \in ErrMsgs : PrepareDone(c, ok, msg)
  \/ \E c \in Callers, ok \in BOOLEAN, msg \in ErrMsgs : GotoDone(c, ok, msg)
  \/ \E c \in Callers : SettleDone(c)
  \/ \E c \in Callers, ok \in BOOLEAN, msg \in ErrMsgs : TitleDone(c, ok, msg)
  \/ \E c \in Callers, ok \in BOOLEAN, msg \in ErrMsgs, d \in BOOLEAN :
       BodyTextDone(c, ok, msg, d)
  \/ \E c \in Callers, ok \in BOOLEAN : WaitForFunctionDone(c, ok)
  \/ \E c \in Callers : ChallengeSettleDone(c)
  \/ \E c \in Callers, ok \in BOOLEAN, msg \in ErrMsgs : ExtractDone(c, ok, msg)
  \/ \E c \in Callers, ok \in BOOLEAN : PageCloseDone(c, ok)
  \/ \E c \in Callers, ok \in BOOLEAN : BrowserCloseDone(c, ok)

ScrapeSpec == ScrapeInit /\ [][PoolNext \/ ScrapeNext]_vars

(* MAX_EMERGENCY_BROWSERS + 1 getBrowser() calls, each made by a
   scrapeGeneric call that stays in flight, on a pool that is initialized,
   empty and not replenishing; earlier emergency launches may have used any
   part of the budget. *)
EmergencyInit ==
  /\ browsers = <<>>
  /\ isInitialized = TRUE
  /\ replenishLock = FALSE
  /\ emergencyBrowserCount \in 0..MAX_EMERGENCY_BROWSERS
  /\ live = {}
  /\ replLaunching = 0
  /\ replBackoff = 0
  /\ adminPc = "idle"
  /\ adminKind = "closeAll"
  /\ closeTodo = {}
  /\ adminLeft = 0
  /\ callsLeft = MAX_EMERGENCY_BROWSERS + 1
  /\ pc = [c \in Callers |-> "idle"]
  /\ initI = [c \in Callers |-> 0]
  /\ browser = [c \in Callers |-> NoHandle]
  /\ obtained = [c \in Callers |-> FALSE]
  /\ page = [c \in Callers |-> FALSE]
  /\ cfConfigured = [c \in Callers |-> FALSE]
  /\ thrown = [c \in Callers |-> NoMsg]
  /\ pending = [c \in Callers |-> NoOutcome]
  /\ outcome = [c \in Callers |-> NoOutcome]
  /\ pageCloses = [c \in Callers |-> 0]
  /\ browserCloses = [c \in Callers |-> 0]
  /\ closeFailed = [c \in Callers |-> {}]
  /\ stages = [c \in Callers |-> <<>>]
  /\ waitRejected = [c \in Callers |-> FALSE]
  /\ waitArg = [c \in Callers |-> <<>>]
  /\ viaEmergency = [c \in Callers |-> FALSE]
  /\ bmBrowser = NoHandle
  /\ bmLaunches = 0
  /\ emAttempts = [c \in Callers |-> 0]
  /\ initGot = [c \in Callers |-> {}]
  /\ initLate = [c \in Callers |-> FALSE]
  /\ closeLog = {}
  /\ exited = FALSE
  /\ NoDetection
  /\ NoScale

EmergencyNext ==
  \/ \E c \in Callers : ScrapeGeneric(c, FALSE)
  \/ \E c \in Callers, ok \in BOOLEAN : EmergencyLaunchDone(c, ok)
  \/ \E c \in Callers : EmergencyBackoffDone(c)

EmergencySpec == EmergencyInit /\ [][EmergencyNext]_vars

(* the pool after a completed initialize() whose launches all succeeded:
   POOL_SIZE browsers available, nothing in flight *)
SteadyWith(active, calls, admin) ==
  /\ browsers = [i \in 1..POOL_SIZE |-> i]
  /\ isInitialized = TRUE
  /\ replenishLock = FALSE
  /\ emergencyBrowserCount = 0
  /\ live = 1..POOL_SIZE
  /\ replLaunching = 0
  /\ replBackoff = 0
  /\ adminPc = "idle"
  /\ adminKind = "closeAll"
  /\ closeTodo = {}
  /\ adminLeft = admin
  /\ callsLeft = calls
  /\ pc = [c \in Callers |-> IF c <= active THEN "idle" ELSE "off"]
  /\ initI = [c \in Callers |-> 0]
  /\ browser = [c \in Callers |-> NoHandle]
  /\ obtained = [c \in Callers |-> FALSE]
  /\ page = [c \in Callers |-> FALSE]
  /\ cfConfigured = [c \in Callers |-> FALSE]
  /\ thrown = [c \in Callers |-> NoMsg]
  /\ pending = [c \in Callers |-> NoOutcome]
  /\ outcome = [c \in Callers |-> NoOutcome]
  /\ pageCloses = [c \in Callers |-> 0]
  /\ browserCloses = [c \in Callers |-> 0]
  /\ closeFailed = [c \in Callers |-> {}]
  /\ stages = [c \in Callers |-> <<>>]
  /\ waitRejected = [c \in Callers |-> FALSE]
  /\ waitArg = [c \in Callers |-> <<>>]
  /\ viaEmergency = [c \in Callers |-> FALSE]
  /\ bmBrowser = NoHandle
  /\ bmLaunches = 0
  /\ emAttempts = [c \in Callers |-> 0]
  /\ initGot = [c \in Callers |-> {}]
  /\ initLate = [c \in Callers |-> FALSE]
  /\ closeLog = {}
  /\ exited = FALSE
  /\ NoDetection
  /\ NoScale

(* The system of Spec on a pool that starts initialized and full: a caller
   found inside initialize() has called getBrowser() after a closeAll() or a
   reset() completed. *)
ResetInit == SteadyWith(NumScrapers, MaxCalls, MaxAdmin)

ResetSpec == ResetInit /\ [][Next]_vars

(* A burst of scrapeGeneric calls on an initialized, full pool, every launch
   succeeding; no closeAll()/reset(). *)
SteadyInit == SteadyWith(SteadyCallers, MaxSteadyCalls, 0)

SteadyNext ==
  \/ \E c \in Callers : ScrapeGeneric(c, FALSE)
  \/ \E c \in Callers : EmergencyLaunchDone(c, TRUE)
  \/ ReplenishLaunchDone(TRUE)
  \/ \E c \in Callers : NewPageDone(c, FALSE, "Failed to create page")
  \/ \E c \in Callers : BrowserCloseDone(c, TRUE)

SteadySpec == SteadyInit /\ [][SteadyNext]_vars

(* ScrapeSpec with timers that fire: the 1 s wait of a failed replenishment
   ends *)
ScrapeFairSpec == ScrapeSpec /\ WF_vars(ReplenishBackoffDone)

(* a browser operation or timer awaited by caller c's scrapeGeneric call
   settles *)
OperationSettles(c) ==
  \/ \E ok \in BOOLEAN : InitLaunchDone(c, ok)
  \/ \E ok \in BOOLEAN : EmergencyLaunchDone(c, ok)
  \/ EmergencyBackoffDone(c)
  \/ \E ok \in BOOLEAN, msg \in ErrMsgs : NewPageDone(c, ok, msg)
  \/ \E ok \in BOOLEAN, msg \in ErrMsgs : PrepareDone(c, ok, msg)
  \/ \E ok \in BOOLEAN, msg \in ErrMsgs : GotoDone(c, ok, msg)
  \/ SettleDone(c)
  \/ \E ok \in BOOLEAN, msg \in ErrMsgs : TitleDone(c, ok, msg)
  \/ \E ok \in BOOLEAN, msg \in ErrMsgs, d \in BOOLEAN :
       BodyTextDone(c, ok, msg, d)
  \/ \E ok \in BOOLEAN : WaitForFunctionDone(c, ok)
  \/ ChallengeSettleDone(c)
  \/ \E ok \in BOOLEAN, msg \in ErrMsgs : ExtractDone(c, ok, msg)
  \/ \E ok \in BOOLEAN : PageCloseDone(c, ok)
  \/ \E ok \in BOOLEAN : BrowserCloseDone(c, ok)

(* ScrapeSpec in which every browser operation and every timer a
   scrapeGeneric call awaits eventually returns or fails *)
ScrapeLiveSpec ==
  ScrapeSpec /\ \A c \in 1..ScrapeCallers : WF_vars(OperationSettles(c))

(* The server process: scrapeGeneric calls on a pool with background
   replenishment, until a termination signal arrives; nothing runs once the
   process has exited. *)
ShutdownInit == InitWith(NumScrapers, MaxCalls, 0)

ShutdownNext ==
  /\ ~exited
  /\ \/ PoolNext
     \/ HolderNext
     \/ \E conn \in SUBSET (Range(browsers) \cap live) : Signal(conn)

ShutdownSpec == ShutdownInit /\ [][ShutdownNext]_vars

(* detectCloudflareChallenge applied once to every combination of the titles,
   body texts and caller pattern lists above *)
DetectInit ==
  /\ PoolAtLoad(0, 0, 0)
  /\ title \in Titles
  /\ bodyText \in BodyTexts
  /\ patterns \in PatternLists
  /\ detectCalled = FALSE
  /\ challengeDetected = FALSE
  /\ NoScale

DetectNext == DetectCloudflareChallenge

DetectSpec == DetectInit /\ [][DetectNext]_vars

(* the titles and body texts of the pages scraped in ChallengeSpec *)
ChallengeTitles == { "Jst a moment...", "Welcome to our website" }

ChallengeBodyTexts == { "", "Sorry: please ENABLE   cookies\nthen reload" }

(* One scrapeGeneric call whose config.cloudflareDetection is `patterns`, on
   a page whose title and body text are `title` and `bodyText`: the verdict
   that decides on the challenge wait is detectCloudflareChallenge's. *)
ChallengeInit ==
  /\ PoolAtLoad(ScrapeCallers, 1, 0)
  /\ title \in ChallengeTitles
  /\ bodyText \in ChallengeBodyTexts
  /\ patterns \in PatternLists
  /\ detectCalled = FALSE
  /\ challengeDetected = FALSE
  /\ NoScale

ChallengeNext ==
  \/ \E c \in Callers : ScrapeGeneric(c, TRUE)
  \/ \E c \in Callers, ok \in BOOLEAN, msg \in ErrMsgs : NewPageDone(c, ok, msg)
  \/ \E c \in Callers, ok \in BOOLEAN, msg \in ErrMsgs : PrepareDone(c, ok, msg)
  \/ \E c \in Callers, ok \in BOOLEAN, msg \in ErrMsgs : GotoDone(c, ok, msg)
  \/ \E c \in Callers : SettleDone(c)
  \/ \E c \in Callers, ok \in BOOLEAN, msg \in ErrMsgs : TitleDone(c, ok, msg)
  \/ \E c \in Callers, msg \in ErrMsgs : BodyTextDone(c, FALSE, msg, FALSE)
  \/ \E c \in Callers :
       BodyTextDone(c, TRUE, NoMsg,
                    detectCloudflareChallenge(title, bodyText, patterns))
  \/ \E c \in Callers, ok \in BOOLEAN : WaitForFunctionDone(c, ok)
  \/ \E c \in Callers : ChallengeSettleDone(c)
  \/ \E c \in Callers, ok \in BOOLEAN, msg \in ErrMsgs : ExtractDone(c, ok, msg)
  \/ \E c \in Callers, ok \in BOOLEAN : PageCloseDone(c, ok)
  \/ \E c \in Callers, ok \in BOOLEAN : BrowserCloseDone(c, ok)

ChallengeSpec == ChallengeInit /\ [][PoolNext \/ ChallengeNext]_vars

(* the scale block applied once to the text of every scale element above *)
ScaleInit ==
  /\ PoolAtLoad(0, 0, 0)
  /\ NoDetection
  /\ textContent \in ScaleTexts
  /\ data = <<>>

ScaleSpec == ScaleInit /\ [][ExtractScale]_vars

(* The legacy scraper: scrapeMFC calls of services/mfcScraper.ts sharing
   BrowserManager's handle, and closeBrowser() calls. *)
LegacyInit == InitWith(LegacyCallers, MaxLegacyCalls, MaxLegacyCloses)

LegacyNext ==
  \/ \E c \in Callers : LegacyScrapeMFC(c)
  \/ \E c \in Callers, ok \in BOOLEAN : LegacyLaunchDone(c, ok)
  \/ \E c \in Callers : LegacyScrapeSettles(c)
  \/ CloseBrowser
  \/ \E ok \in BOOLEAN : CloseBrowserDone(ok)

LegacySpec == LegacyInit /\ [][LegacyNext]_vars

(* initialize() called on its own by InitCallers callers, MaxInitCalls times
   in all, one after the other or together, on a pool that starts
   uninitialized *)
InitInit == InitWith(InitCallers, MaxInitCalls, 0)

InitNext ==
  \/ \E c \in Callers : Initialize(c)
  \/ \E c \in Callers, ok \in BOOLEAN : InitializeLaunchDone(c, ok)

InitSpec == InitInit /\ [][InitNext]_vars

----------------------------------------------------------------------------
(* Properties                                                              *)

HeldBy(h) == {c \in Callers : browser[c] = h /\ pc[c] # "off"}

(* the caller's getBrowser() call has returned or thrown *)
Settled(c) == pc[c] \notin {"idle", "init", "em_launch", "em_backoff"}

(* the callers whose getBrowser() call returned a handle *)
Succeeded == {c \in Callers : obtained[c]}

(* the callers whose getBrowser() call threw a pool-exhausted error *)
Failed ==
  {c \in Callers :
     /\ pc[c] = "done"
     /\ ~obtained[c]
     /\ thrown[c] \in {PoolExhaustedMsg, MaxAttemptsMsg}}

(* the messages that contain an entry of the critical allow-list *)
OnAllowList ==
  {m \in Throwable : \E k \in DOMAIN criticalErrors : Includes(m, criticalErrors[k])}

(* C1: the number of live browser processes never exceeds
   POOL_SIZE + MAX_EMERGENCY_BROWSERS *)
C1_LiveBrowsersBounded ==
  Cardinality(live) <= POOL_SIZE + MAX_EMERGENCY_BROWSERS

(* C2: the available list never holds more than POOL_SIZE handles, whatever
   getBrowser() and replenishPool() calls interleave, from an initialized or
   an uninitialized pool *)
C2_PoolSizeInvariant ==
  Len(browsers) <= POOL_SIZE

(* C3: at most one replenishPool() launch is in flight at any time *)
C3_OneReplenishInFlight ==
  replLaunching <= 1

(* C4: 0 <= emergencyBrowserCount <= MAX_EMERGENCY_BROWSERS in every
   reachable state *)
C4_EmergencyCountInRange ==
  /\ emergencyBrowserCount >= 0
  /\ emergencyBrowserCount <= MAX_EMERGENCY_BROWSERS

(* the budget is spent and a getBrowser() call has given up after its last
   emergency launch failed *)
C4_Witness ==
  /\ emergencyBrowserCount = MAX_EMERGENCY_BROWSERS
  /\ \E c \in Callers : pc[c] = "done" /\ thrown[c] = MaxAttemptsMsg

(* C5: MAX_EMERGENCY_BROWSERS + 1 concurrent getBrowser() calls on an
   initialized, empty, non-replenishing pool: never more than
   MAX_EMERGENCY_BROWSERS of them return a handle, and once all have settled
   at least one has failed with a pool-exhausted error *)
C5_EmergencyCap ==
  /\ Cardinality(Succeeded) <= MAX_EMERGENCY_BROWSERS
  /\ (\A c \in Callers : Settled(c)) => Cardinality(Failed) >= 1

(* all calls settled, MAX_EMERGENCY_BROWSERS of them with a handle *)
C5_Witness ==
  /\ \A c \in Callers : Settled(c)
  /\ Cardinality(Succeeded) = MAX_EMERGENCY_BROWSERS
  /\ Cardinality(Failed) = 1

(* C6: every live handle is either in the available list or checked out to
   exactly one caller, never both and never to two callers *)
C6_NoLeakNoShare ==
  \A h \in live :
    /\ (h \in Range(browsers)) # (HeldBy(h) # {})
    /\ Cardinality(HeldBy(h)) <= 1

(* C7: when a scrapeGeneric call has settled, page.close() was called exactly
   once if a page was opened (else never) and browser.close() exactly once if
   a browser was obtained (else never), also when page.close() rejected *)
C7_CleanupExactlyOnce ==
  \A c \in Callers :
    /\ pageCloses[c] <= 1
    /\ browserCloses[c] <= 1
    /\ pc[c] = "done" =>
         /\ pageCloses[c] = (IF page[c] THEN 1 ELSE 0)
         /\ browserCloses[c] = (IF obtained[c] THEN 1 ELSE 0)

(* a call settled after its page.close() rejected *)
C7_Witness ==
  \E c \in Callers :
    /\ pc[c] = "done"
    /\ "page" \in closeFailed[c]
    /\ pageCloses[c] = 1
    /\ browserCloses[c] = 1

(* the completion of the call had both closes resolved: the extracted object
   when nothing was thrown, else what the catch block makes of the error *)
CompletionWithoutCloseFailure(c) ==
  IF thrown[c] = NoMsg
    THEN Resolved(ExtractedFields, NoMsg)
    ELSE IF thrown[c] \in OnAllowList
      THEN Rejected(thrown[c])
      ELSE Resolved({"error"}, thrown[c])

(* C8: a settled scrapeGeneric call has the completion it would have had with
   both closes resolved, whichever of page.close() and browser.close()
   rejected *)
C8_CleanupKeepsOutcome ==
  \A c \in Callers :
    pc[c] = "done" => outcome[c] = CompletionWithoutCloseFailure(c)

(* a call settled with its extracted result after both closes rejected *)
C8_Witness ==
  /\ \E c \in Callers :
       /\ pc[c] = "done"
       /\ closeFailed[c] = {"page", "browser"}
       /\ outcome[c] = Resolved(ExtractedFields, NoMsg)

(* C9: an error whose message contains an allow-list entry makes the call
   reject with that message; any other error makes it resolve with exactly
   { error: message }; there is no third outcome *)
C9_ErrorClassification ==
  \A c \in Callers :
    (pc[c] = "done" /\ thrown[c] # NoMsg) =>
      IF thrown[c] \in OnAllowList
        THEN outcome[c] = Rejected(thrown[c])
        ELSE outcome[c] = Resolved({"error"}, thrown[c])

(* a call rejected with a message that contains an allow-list entry without
   being one *)
C9_Witness ==
  \E c \in Callers :
    /\ pc[c] = "done"
    /\ thrown[c] = "net::ERR_NAME_NOT_RESOLVED at https://example.com"
    /\ outcome[c] = Rejected(thrown[c])

(* the awaits of the try block the call has reached, in order *)
TryStages(c) ==
  SelectSeq(stages[c], LAMBDA st : st \notin {"fin_page", "fin_browser"})

(* the await whose rejection reached the catch block, "" when none did *)
FailedAt(c) ==
  IF thrown[c] = NoMsg THEN "" ELSE TryStages(c)[Len(TryStages(c))]

(* the awaits that prepare the page and navigate *)
PrepareNavigate ==
  {"newPage", "setViewport", "setUserAgent", "setExtraHTTPHeaders", "goto"}

(* C10: a scrapeGeneric call whose getBrowser() failed rejects *)
C10_AcquireFailureRejects ==
  \A c \in Callers :
    (pc[c] = "done" /\ ~obtained[c]) => outcome[c].kind = "rejected"

(* C11: a call that failed while preparing the page or navigating rejects with
   that error, whatever its message, and never attempted the extraction *)
C11_PrepareNavigateFailureRejects ==
  \A c \in Callers :
    (pc[c] = "done" /\ FailedAt(c) \in PrepareNavigate) =>
      /\ outcome[c] = Rejected(thrown[c])
      /\ "extract" \notin Range(stages[c])

(* C12: once page.waitForFunction has rejected, the call goes on to the
   extraction, and its completion is the one the extraction alone decides:
   the extracted object, or what the catch block makes of the extraction's
   error *)
C12_ChallengeWaitNeverFatal ==
  \A c \in Callers :
    waitRejected[c] =>
      /\ pc[c] \in {"challengeSettle", "extract", "fin_page", "fin_browser", "done"}
      /\ pc[c] \in {"fin_page", "fin_browser", "done"} =>
           /\ "extract" \in Range(stages[c])
           /\ FailedAt(c) \in {"", "extract"}
           /\ pending[c] = CompletionWithoutCloseFailure(c)
      /\ pc[c] = "done" => outcome[c] = pending[c]

(* a call that resolved with the extracted object after its challenge wait
   rejected *)
C12_Witness ==
  \E c \in Callers :
    /\ pc[c] = "done"
    /\ waitRejected[c]
    /\ outcome[c] = Resolved(ExtractedFields, NoMsg)

(* the fixed order of the awaits of one scrapeGeneric call *)
StageOrder ==
  << "getBrowser", "newPage", "setViewport", "setUserAgent",
     "setExtraHTTPHeaders", "goto", "settle", "title", "bodyText",
     "waitForFunction", "challengeSettle", "extract", "fin_page",
     "fin_browser" >>

Rank(st) == CHOOSE k \in DOMAIN StageOrder : StageOrder[k] = st

(* stage a is in the call's history only if stage b is *)
Requires(c, a, b) ==
  a \in Range(stages[c]) => b \in Range(stages[c])

(* C13: the awaits of a call are reached in the fixed order, beginning with
   getBrowser; none of newPage .. settle is skipped on the way to the
   extraction, so the extraction starts only after goto resolved; the
   challenge steps come in their order; and a close is reached only after
   the extraction resolved or an error was caught *)
C13_StageOrder ==
  \A c \in Callers :
    /\ \A i \in DOMAIN stages[c] : stages[c][i] \in Range(StageOrder)
    /\ \A i, j \in DOMAIN stages[c] :
         i < j => Rank(stages[c][i]) < Rank(stages[c][j])
    /\ stages[c] # <<>> => stages[c][1] = "getBrowser"
    /\ Requires(c, "extract", "settle")
    /\ Requires(c, "settle", "goto")
    /\ Requires(c, "goto", "setExtraHTTPHeaders")
    /\ Requires(c, "setExtraHTTPHeaders", "setUserAgent")
    /\ Requires(c, "setUserAgent", "setViewport")
    /\ Requires(c, "setViewport", "newPage")
    /\ Requires(c, "challengeSettle", "waitForFunction")
    /\ Requires(c, "waitForFunction", "bodyText")
    /\ Requires(c, "bodyText", "title")
    /\ Requires(c, "title", "settle")
    /\ "extract" \in Range(stages[c]) => FailedAt(c) \in {"", "extract"}
    /\ (\E st \in {"fin_page", "fin_browser"} : st \in Range(stages[c])) =>
         \/ thrown[c] # NoMsg
         \/ /\ "extract" \in Range(stages[c])
            /\ pending[c] = Resolved(ExtractedFields, NoMsg)

(* a call that went through every stage, the challenge wait included *)
C13_Witness ==
  \E c \in Callers : pc[c] = "done" /\ stages[c] = StageOrder

RECURSIVE SumInitI(_)
(* the launches made by the initialize() calls of the callers in S *)
SumInitI(S) ==
  IF S = {} THEN 0
  ELSE LET c == CHOOSE x \in S : TRUE IN initI[c] + SumInitI(S \ {c})

(* some step in which initialize() is called when a previous initialize()
   has completed *)
LateInitializeCall == callsLeft' < callsLeft /\ isInitialized

(* C14: an initialize() call made after a previous one has completed launches
   nothing and leaves the pool as it is; of two calls, the second made after
   the first completed, exactly POOL_SIZE launches are made in all *)
C14_InitializeIdempotent ==
  /\ [][LateInitializeCall =>
          /\ UNCHANGED <<browsers, live, isInitialized, initI, initGot>>
          /\ \A c \in Callers : pc'[c] = "initialize" => pc[c] = "initialize"]_vars
  /\ []((callsLeft = MaxInitCalls - 2 /\ \E c \in Callers : initLate[c]) =>
          SumInitI(Callers) = POOL_SIZE)

(* two calls were made, the second after the first had completed *)
C14_Witness ==
  /\ callsLeft = MaxInitCalls - 2
  /\ \E c \in Callers : initLate[c] /\ pc[c] = "init_noop"
  /\ \E c \in Callers : pc[c] = "init_ret"
  /\ Len(browsers) = POOL_SIZE

(* C15: an initialize() call that runs returns only after POOL_SIZE launch
   attempts, whichever of them failed, and leaves the pool initialized; the
   pool holds exactly the handles whose launch succeeded, each once *)
C15_InitializeToleratesFailures ==
  /\ \A c \in Callers :
       /\ pc[c] = "init_ret" => (initI[c] = POOL_SIZE /\ isInitialized)
       /\ pc[c] = "initialize" => initI[c] < POOL_SIZE
       /\ Cardinality(initGot[c]) <= initI[c]
  /\ Range(browsers) = UNION {initGot[c] : c \in Callers}
  /\ Len(browsers) = Cardinality(Range(browsers))

(* an initialize() call returned after all its launches failed *)
C15_Witness ==
  \E c \in Callers :
    /\ pc[c] = "init_ret"
    /\ initI[c] = POOL_SIZE
    /\ initGot[c] = {}
    /\ browsers = <<>>
    /\ isInitialized

(* a step in which a reset() call completes *)
ResetCompletes ==
  /\ adminKind' = "reset"
  /\ adminPc' = "idle"
  /\ adminPc = "closing" \/ adminLeft' < adminLeft

(* a step in which getBrowser() is called on an uninitialized pool *)
GetBrowserCalledUninitialized == callsLeft' < callsLeft /\ ~isInitialized

(* C16: when reset() completes the available list is empty, the pool is
   uninitialized, emergencyBrowserCount is 0 and the lock is free; a
   getBrowser() called on the uninitialized pool runs initialize(), holds no
   handle while it does, and leaves it only after POOL_SIZE launches, with
   the pool initialized *)
C16_ResetClearsState ==
  /\ [][ResetCompletes =>
          /\ browsers' = <<>>
          /\ ~isInitialized'
          /\ emergencyBrowserCount' = 0
          /\ ~replenishLock']_vars
  /\ [][GetBrowserCalledUninitialized =>
          \E c \in Callers :
            /\ pc[c] \in {"idle", "done"}
            /\ pc'[c] = "init"
            /\ initI'[c] = 0]_vars
  /\ [][\A c \in Callers :
          (pc[c] = "init" /\ pc'[c] # "init") =>
            (initI[c] = POOL_SIZE - 1 /\ isInitialized')]_vars
  /\ [](\A c \in Callers :
          pc[c] = "init" => (browser[c] = NoHandle /\ ~obtained[c]))

(* reset() has completed and a getBrowser() called after it is in the last
   iteration of initialize() *)
C16_Witness ==
  /\ adminKind = "reset"
  /\ adminPc = "idle"
  /\ adminLeft < MaxAdmin
  /\ \E c \in Callers : pc[c] = "init" /\ initI[c] = POOL_SIZE - 1

(* C17: a getBrowser() call makes at most two emergency launch attempts *)
C17_AtMostOneRetry ==
  \A c \in Callers : emAttempts[c] <= 2

(* C18: the step in which a replenishPool() launch fails leaves the available
   list and every call in flight as they are, and the lock taken for a
   failing replenishment is released in the end *)
C18_ReplenishFailureSwallowed ==
  /\ [][replBackoff' > replBackoff =>
          UNCHANGED <<browsers, pc, thrown, pending, outcome, browser>>]_vars
  /\ (replBackoff > 0) ~> (~replenishLock)

(* a replenishment has failed while the scrape whose getBrowser() started it
   goes on with its handle *)
C18_Witness ==
  /\ replBackoff > 0
  /\ replenishLock
  /\ \E c \in Callers : pc[c] = "newPage" /\ obtained[c]

(* no launch is pending and no getBrowser() call is in progress *)
PoolQuiet ==
  /\ replLaunching = 0
  /\ replBackoff = 0
  /\ \A c \in Callers : pc[c] \notin {"init", "em_launch", "em_backoff"}

(* C19: once the launches started by a burst of getBrowser() calls have
   completed, the available list holds POOL_SIZE handles again *)
C19_PoolSelfHeals ==
  PoolQuiet => Len(browsers) = POOL_SIZE

(* a step in which a closeAll() call returns *)
CloseAllReturns ==
  /\ adminPc' = "idle"
  /\ adminPc = "closing" \/ adminLeft' < adminLeft

(* C20: every close task of closeAll() calls close() if and only if
   isConnected() answered true; closeAll() returns only when every task has
   settled, whichever close() rejected; and when it returns the available
   list is empty and the pool uninitialized *)
C20_CloseAllTolerant ==
  /\ [](\A t \in closeLog : t.closeCalled <=> t.connected)
  /\ [][CloseAllReturns =>
          /\ \A t \in closeLog : t.settled
          /\ browsers' = <<>>
          /\ ~isInitialized']_vars

(* every task of a closeAll() has settled: one browser was found
   disconnected, one close() rejected and one close() resolved *)
C20_Witness ==
  /\ adminPc = "closing"
  /\ closeTodo = {}
  /\ \E t \in closeLog : ~t.connected /\ ~t.closeCalled
  /\ \E t \in closeLog : t.closeCalled /\ t.settled /\ ~t.ok
  /\ \E t \in closeLog : t.closeCalled /\ t.settled /\ t.ok

(* C21: when the process exits on a termination signal, every close task of
   closeAll() has settled, having called close() on each connected browser *)
C21_CloseAllBeforeExit ==
  exited => \A t \in closeLog : t.settled /\ (t.connected => t.closeCalled)

(* caller c's scrapeGeneric call is in progress *)
InCall(c) == pc[c] \notin {"off", "idle", "done"}

(* caller c's call is inside getBrowser() *)
InGetBrowser(c) == pc[c] \in {"init", "em_launch", "em_backoff"}

(* C22: a scrapeGeneric call in progress eventually settles, resolved or
   rejected, and a getBrowser() call in progress eventually returns or
   throws, given that every operation awaited eventually returns or fails *)
C22_ScrapeSettles ==
  /\ \A c \in 1..ScrapeCallers : InCall(c) ~> (pc[c] = "done")
  /\ \A c \in 1..ScrapeCallers : InGetBrowser(c) ~> ~InGetBrowser(c)
  /\ [](\A c \in Callers :
          pc[c] = "done" => outcome[c].kind \in {"resolved", "rejected"})

(* a call has settled after its getBrowser() retried the emergency launch
   until the budget was used up *)
C22_Witness ==
  \E c \in Callers : pc[c] = "done" /\ thrown[c] = MaxAttemptsMsg

(* C23: with an empty title and an empty body text the detector returns
   false, whatever the caller's pattern lists *)
C23_BlankPageNeverMatches ==
  (detectCalled /\ title = "" /\ bodyText = "") => ~challengeDetected

(* the detector was applied to an empty title and body with pattern lists
   that hold a whitespace-only pattern *)
C23_Witness ==
  /\ detectCalled
  /\ title = ""
  /\ bodyText = ""
  /\ patterns.titleIncludes # <<>>
  /\ Normalize(patterns.titleIncludes[1]) = <<>>
  /\ ~challengeDetected

(* C24: the title "Jst a moment..." with caller title pattern "Just a moment"
   is detected when the body text matches no body pattern *)
C24_TitleTypoDetected ==
  ( /\ detectCalled
    /\ title = "Jst a moment..."
    /\ patterns.titleIncludes = <<"Just a moment">>
    /\ ~BodyMatches(bodyText, patterns) ) => challengeDetected

(* C25: title "Just" and body "moment" with caller patterns
   ["Just a moment"] are not detected *)
C25_FragmentsRejected ==
  ( /\ detectCalled
    /\ title = "Just"
    /\ bodyText = "moment"
    /\ patterns.titleIncludes = <<"Just a moment">>
    /\ patterns.bodyIncludes = <<"Just a moment">> ) => ~challengeDetected

(* the detector was applied to the fragments and returned false *)
C25_Witness ==
  /\ detectCalled
  /\ title = "Just"
  /\ bodyText = "moment"
  /\ patterns.titleIncludes = <<"Just a moment">>
  /\ patterns.bodyIncludes = <<"Just a moment">>
  /\ ~challengeDetected

(* a string lowercased, its whitespace runs collapsed *)
LowerCollapsed(str) ==
  LET cs == Chars(str)
  IN  CollapseWhitespace(
        [i \in DOMAIN cs |-> IF cs[i] \in DOMAIN LowerOf THEN LowerOf[cs[i]] ELSE cs[i]])

(* text, lowercased and collapsed, contains one of the patterns likewise *)
ContainsOneOf(text, pats) ==
  \E k \in DOMAIN pats : Includes(LowerCollapsed(text), LowerCollapsed(pats[k]))

(* text, lowercased and collapsed, contains a non-empty one of the patterns *)
ContainsNonEmptyOneOf(text, pats) ==
  \E k \in DOMAIN pats :
    pats[k] # "" /\ Includes(LowerCollapsed(text), LowerCollapsed(pats[k]))

(* C26 as stated: the detector returns true whenever the title contains a
   title pattern or the body a body pattern, caller's or built-in, after
   lowercasing and collapsing whitespace *)
C26_ContainmentDetected_AnyPattern ==
  ( /\ detectCalled
    /\ \/ ContainsOneOf(title, expandedTitlePatterns(patterns))
       \/ ContainsOneOf(bodyText, expandedBodyPatterns(patterns)) )
  => challengeDetected

(* C26: the detector returns true whenever the title contains a non-empty
   title pattern or the body a non-empty body pattern, caller's or built-in,
   after lowercasing and collapsing whitespace *)
C26_ContainmentDetected ==
  ( /\ detectCalled
    /\ \/ ContainsNonEmptyOneOf(title, expandedTitlePatterns(patterns))
       \/ ContainsNonEmptyOneOf(bodyText, expandedBodyPatterns(patterns)) )
  => challengeDetected

(* a built-in phrase the caller's lists do not mention was detected in a
   title written in another case and with extra whitespace *)
C26_Witness ==
  /\ detectCalled
  /\ title = "Checking  Your\nBROWSER"
  /\ bodyText = ""
  /\ patterns = NoPatterns
  /\ challengeDetected

(* C27: without reset(), at most one replenishPool() launch is pending at
   any time and the lock is held while it is: a replenishPool() called while
   the first one's launch is pending starts no launch *)
C27_BackToBackOneLaunch ==
  /\ replLaunching + replBackoff \in {0, 1}
  /\ replenishLock <=> (replLaunching + replBackoff = 1)

(* two getBrowser() calls have popped a browser while the launch started by
   the first is still pending *)
C27_Witness ==
  /\ replLaunching = 1
  /\ Len(browsers) = POOL_SIZE - 2
  /\ \E c, d \in Callers :
       c # d /\ pc[c] = "newPage" /\ pc[d] = "newPage" /\ obtained[c] /\ obtained[d]

(* C28: every initialize() call made before the pool is initialized runs the
   whole loop, whatever other calls are running: InitCallers calls started
   before any has finished make InitCallers x POOL_SIZE launches in all *)
C28_ConcurrentInitializeNotSerialized ==
  /\ \A c \in Callers :
       (pc[c] \in {"init_ret", "init_noop"} /\ ~initLate[c]) =>
         initI[c] = POOL_SIZE
  /\ (\A c \in 1..InitCallers : pc[c] = "init_ret" /\ ~initLate[c]) =>
       SumInitI(Callers) = InitCallers * POOL_SIZE

(* all InitCallers calls were started before any finished and have returned *)
C28_Witness ==
  /\ \A c \in 1..InitCallers : pc[c] = "init_ret" /\ ~initLate[c]
  /\ SumInitI(Callers) = InitCallers * POOL_SIZE
  /\ Len(browsers) > POOL_SIZE

(* C29: a replenishPool() call starts a launch only with the lock free and
   the list below POOL_SIZE, and then exactly one; called with the lock held
   it changes nothing; its successful launch appends one handle and lowers
   emergencyBrowserCount by one, not below zero; its failed launch changes
   neither the list nor the counter *)
C29_ReplenishOneLaunch ==
  [][ /\ (replLaunching' > replLaunching) =>
           /\ replLaunching' = replLaunching + 1
           /\ ~replenishLock /\ replenishLock'
           /\ Len(browsers') < POOL_SIZE
      /\ (Len(browsers') < Len(browsers) /\ replenishLock) =>
           UNCHANGED <<replLaunching, replBackoff, replenishLock,
                       emergencyBrowserCount>>
      /\ (replLaunching' < replLaunching /\ replBackoff' = replBackoff) =>
           /\ Len(browsers') = Len(browsers) + 1
           /\ SubSeq(browsers', 1, Len(browsers)) = browsers
           /\ emergencyBrowserCount' =
                IF emergencyBrowserCount > 0 THEN emergencyBrowserCount - 1 ELSE 0
      /\ (replBackoff' > replBackoff) =>
           UNCHANGED <<browsers, emergencyBrowserCount>> ]_vars

(* a replenishment has succeeded while a getBrowser() call was retrying its
   emergency launch: the call has counted two attempts, the counter is back
   at one and the list holds the new handle *)
C29_Witness ==
  /\ emergencyBrowserCount = 1
  /\ Len(browsers) = 1
  /\ \E c \in Callers : pc[c] = "em_backoff" /\ emAttempts[c] = 2

(* C30: the step in which a closeAll() not called by reset() returns leaves
   emergencyBrowserCount and the replenish lock as they are *)
C30_CloseAllKeepsCounterAndLock ==
  [][(CloseAllReturns /\ adminKind' = "closeAll") =>
       UNCHANGED <<emergencyBrowserCount, replenishLock>>]_vars

(* C31: whenever a scrapeGeneric call is in its challenge wait, the patterns
   handed to page.waitForFunction are those of the caller's
   cloudflareDetection lists (titleIncludes and bodyIncludes), whatever the
   configuration. *)
C31_WaitPollsCallersPatterns ==
  \A c \in Callers :
    pc[c] = "waitForFunction" =>
      Range(waitArg[c]) =
        Range(patterns.titleIncludes) \cup Range(patterns.bodyIncludes)

(* how often stage st is in the history of caller c's call *)
TimesReached(c, st) ==
  Cardinality({i \in DOMAIN stages[c] : stages[c][i] = st})

(* C32: one scrapeGeneric call invokes page.goto at most once and the
   extraction evaluate at most once; after a failed navigation or extraction
   the call only runs its finally block, and no navigation follows a
   challenge wait. *)
C32_NoRetryNoRenavigation ==
  \A c \in Callers :
    /\ TimesReached(c, "goto") <= 1
    /\ TimesReached(c, "extract") <= 1
    /\ \A i, j \in DOMAIN stages[c] :
         (i < j /\ stages[c][i] = "waitForFunction") => stages[c][j] # "goto"
    /\ FailedAt(c) \in {"goto", "extract"} =>
         pc[c] \in {"fin_page", "fin_browser", "done"}

C32_Witness ==
  \E c \in Callers :
    /\ pc[c] = "done"
    /\ "waitForFunction" \in Range(stages[c])
    /\ TimesReached(c, "goto") = 1
    /\ TimesReached(c, "extract") = 1
    /\ FailedAt(c) = "extract"

(* a scrapeMFC call, which is scrapeGeneric with SITE_CONFIGS.mfc and its
   cloudflareDetection, has returned the extracted data *)
ScrapeMFCSucceeded(c) ==
  /\ pc[c] = "done"
  /\ cfConfigured[c]
  /\ outcome[c] = Resolved(ExtractedFields, NoMsg)

(* C33 as stated: a successful scrapeMFC call has closed its page exactly
   once and has not closed the browser it obtained from getBrowser() *)
C33_BrowserLeftOpen ==
  \A c \in Callers :
    ScrapeMFCSucceeded(c) => (pageCloses[c] = 1 /\ browserCloses[c] = 0)

(* C33: a successful scrapeMFC call has closed its page exactly once and the
   browser it obtained from getBrowser() exactly once; the closed handle is
   not in the pool's list *)
C33_BrowserClosedOnce ==
  \A c \in Callers :
    ScrapeMFCSucceeded(c) =>
      /\ pageCloses[c] = 1
      /\ browserCloses[c] = 1
      /\ obtained[c]
      /\ browser[c] \in live => browser[c] \notin Range(browsers)

(* a scrapeMFC call returned its data although its page.close() rejected *)
C33_Witness ==
  \E c \in Callers :
    /\ ScrapeMFCSucceeded(c)
    /\ "page" \in closeFailed[c]
    /\ browserCloses[c] = 1
    /\ browser[c] \notin live

(* s is one or more digits *)
AllDigits(s) == Len(s) >= 1 /\ \A i \in 1..Len(s) : CharAt(s, i) \in Digits

(* s stands at positions i..(i + Len(s) - 1) of t *)
OccursAt(s, t, i) ==
  /\ i >= 1
  /\ i + Len(s) - 1 <= Len(t)
  /\ SubSeq(t, i, i + Len(s) - 1) = s

(* that occurrence has no digit after it, none before it *)

NoDigitAfter(s, t, i) ==
  i + Len(s) > Len(t) \/ CharAt(t, i + Len(s)) \notin Digits

NoDigitBefore(t, i) == i = 1 \/ CharAt(t, i - 1) \notin Digits

(* s is digit(s)/digit(s) *)
IsFraction(s) ==
  \E k \in 2..(Len(s) - 1) :
    /\ CharAt(s, k) = "/"
    /\ AllDigits(SubSeq(s, 1, k - 1))
    /\ AllDigits(SubSeq(s, k + 1, Len(s)))

(* C34 as stated: when the trimmed text contains a fraction digit(s)/digit(s)
   the extracted scale is that fraction, a whole one as it stands in the
   text; otherwise it is the trimmed text *)
C34_ScaleIsTheFraction ==
  data # <<>> =>
    LET t == TrimmedText(textContent)
        s == data[1]
    IN  IF \E a, b \in Digits : Includes(t, a \o "/" \o b)
          THEN /\ IsFraction(s)
               /\ \E i \in 1..Len(t) :
                    OccursAt(s, t, i) /\ NoDigitBefore(t, i) /\ NoDigitAfter(s, t, i)
          ELSE s = t

(* C34: when the trimmed text contains "1/" followed by a digit, the
   extracted scale is "1/" and all the digits that follow it, taken at the
   first place of the text where that occurs; otherwise it is the trimmed
   text *)
C34_ScaleIsFirstOneOverN ==
  data # <<>> =>
    LET t == TrimmedText(textContent)
        s == data[1]
        found(i) == \E d \in Digits : OccursAt("1/" \o d, t, i)
    IN  IF \E i \in 1..Len(t) : found(i)
          THEN /\ Len(s) >= 3
               /\ SubSeq(s, 1, 2) = "1/"
               /\ AllDigits(SubSeq(s, 3, Len(s)))
               /\ \E i \in 1..Len(t) :
                    /\ OccursAt(s, t, i)
                    /\ NoDigitAfter(s, t, i)
                    /\ \A j \in 1..(i - 1) : ~found(j)
          ELSE s = t

(* the spec's example: 'Premium Figure 1/7 Scale Complete Figure' gave '1/7' *)
C34_Witness ==
  /\ textContent = "Premium Figure 1/7 Scale Complete Figure"
  /\ data = <<"1/7">>

(* C35: BrowserManager.getBrowser() starts at most one launch between two
   closeBrowser() calls, and until the first closeBrowser() call the
   scrapeMFC calls at work all hold the same handle *)
C35_OneLaunchBetweenCloses ==
  /\ bmLaunches <= 1
  /\ adminLeft = MaxLegacyCloses =>
       \A c, d \in Callers :
         (pc[c] = "bm_scrape" /\ pc[d] = "bm_scrape") => browser[c] = browser[d]

(* the pool at rest, initialized, with an empty list and no emergency budget
   left: getBrowser() throws 'Browser pool exhausted' whatever the launches
   would do, and neither a replenishment nor a launch is there to change it *)
StuckExhausted ==
  /\ isInitialized
  /\ browsers = <<>>
  /\ ~EmergencyAllowed
  /\ PoolQuiet
  /\ \A c \in Callers : ~InCall(c)

(* without closeAll() or reset() that state is never left *)
StuckExhaustedForGood == [][StuckExhausted => StuckExhausted']_vars

(* C36: the pool is never left in a state from which no getBrowser() call can
   succeed without closeAll() or reset(): the budget used by failed
   emergency launches is given back *)
C36_NoPermanentExhaustion == ~StuckExhausted

(* C37: while closeAll() is between the start of its close attempts and the
   clearing of the list, no scrapeGeneric call holds a handle returned by
   getBrowser() that is among those closeAll() is closing or has closed *)
C37_CloseAllSparesCheckedOut ==
  adminPc = "closing" =>
    \A c \in Callers :
      (InCall(c) /\ obtained[c]) => browser[c] \notin {t.h : t \in closeLog}

(* C38: once closeAll() has returned and as long as no initialize() has run
   since or is running, the available list is empty: a launch that was in
   flight when closeAll() ran adds no handle to it *)
C38_ListStaysEmptyAfterCloseAll ==
  ( /\ adminLeft < MaxAdmin
    /\ adminPc = "idle"
    /\ ~isInitialized
    /\ \A c \in Callers : pc[c] # "init" ) => browsers = <<>>

(* the browsers launched by getBrowser()'s emergency path and not closed
   yet: each is held by the call it was returned to *)
OpenEmergencyBrowsers ==
  {browser[c] : c \in {d \in Callers : viaEmergency[d] /\ obtained[d]}} \cap live

(* C39: emergencyBrowserCount is at least the number of browsers launched
   through the emergency path that have not been closed *)
C39_CounterCoversOpenEmergencyBrowsers ==
  emergencyBrowserCount >= Cardinality(OpenEmergencyBrowsers)

====
